---- MODULE Spec2Model ----
(***************************************************************************)
(* A model of slippy-map-tiles (src/src/lib.rs): the Tile and Metatile     *)
(* value types, the Morton (Z-order) codec and the tile iterators.         *)
(*                                                                         *)
(* Machine words.  The crate computes with u32 coordinates, u64 Morton     *)
(* indexes and usize counts, far beyond the integers TLC can evaluate, so  *)
(* an unsigned word is modelled by the set of the positions of its 1 bits: *)
(* 0 is {}, 5 is {0, 2}, 2^32 - 1 is 0..31.  The u8 values (zoom, scale)   *)
(* are plain integers.                                                     *)
(*                                                                         *)
(* Overflow.  Rust's integer arithmetic panics on overflow in a build with *)
(* overflow checks (debug) and wraps around without them (release).  Every *)
(* function F of the crate is modelled by F, its result with wrapping      *)
(* arithmetic, and F_overflows, whether one of its operations overflows;   *)
(* the variable build says which of the two the program is.                *)
(***************************************************************************)
EXTENDS Integers, Sequences, FiniteSets, TLC

VARIABLES
    build,  \* "debug" (overflow panics) or "release" (overflow wraps)
    obj,    \* the value the calls are made on: a tile, an iterator, ...
    call,   \* the last call made: its name and arguments
    ret,    \* what the last call returned
    out     \* history: what the iterator of obj has returned so far

vars == <<build, obj, call, ret, out>>

----------------------------------------------------------------------------
(* Widths and limits of the program.                                       *)

U8Bits == 8

U32Bits == 32

U64Bits == 64

\* usize of the 64-bit targets the tests are written for (tests.rs:340).
UsizeBits == 64

\* std::u8::MAX
U8Max == 255

\* Tile::new and Metatile::new refuse a zoom >= 100.
ZoomLimit == 100

----------------------------------------------------------------------------
(* Unsigned words as sets of bit positions.                                *)

MaxOf(S) == CHOOSE m \in S : \A k \in S : k <= m

\* The word of a small integer n (0 <= n < 2^31).
W(n) == {i \in 0..30 : (n \div (2 ^ i)) % 2 = 1}

RECURSIVE IntOf(_)
\* The integer of a word below 2^31.
IntOf(w) ==
    IF w = {} THEN 0
    ELSE LET m == MaxOf(w) IN (2 ^ m) + IntOf(w \ {m})

\* The word fits in an unsigned integer of `bits` bits.
Fits(w, bits) == \A i \in w : i < bits

\* w mod 2^bits: what wrapping arithmetic keeps.
Wrap(w, bits) == {i \in w : i < bits}

Lt(a, b) == a # b /\ MaxOf((a \ b) \cup (b \ a)) \in b

Le(a, b) == a = b \/ Lt(a, b)

\* w << k and w >> k, exact.
Shl(w, k) == {i + k : i \in w}

Shr(w, k) == {i - k : i \in {j \in w : j >= k}}

Xor(a, b) == (a \ b) \cup (b \ a)

RECURSIVE Add(_, _)
\* a + b, exact: the sum without carries plus the carries.
Add(a, b) == IF b = {} THEN a ELSE Add(Xor(a, b), Shl(a \cap b, 1))

RECURSIVE SubWrap(_, _, _)
\* a - b modulo 2^bits: the difference without borrows minus the borrows.
SubWrap(a, b, bits) ==
    IF b = {} THEN a
    ELSE SubWrap(Xor(a, b), Wrap(Shl(b \ a, 1), bits), bits)

RECURSIVE Mul(_, _)
\* a * b, exact.
Mul(a, b) ==
    IF b = {} THEN {}
    ELSE LET m == MaxOf(b) IN Add(Shl(a, m), Mul(a, b \ {m}))

RECURSIVE DivStep(_, _, _, _, _)
\* Long division of a by b # 0, from bit i of a down: quotient q, rest r.
DivStep(a, b, i, q, r) ==
    IF i < 0 THEN [q |-> q, r |-> r]
    ELSE LET r2 == Add(Shl(r, 1), IF i \in a THEN {0} ELSE {})
         IN IF Le(b, r2)
            THEN DivStep(a, b, i - 1, q \cup {i},
                         SubWrap(r2, b, MaxOf(r2) + 1))
            ELSE DivStep(a, b, i - 1, q, r2)

\* a / b and a % b of unsigned integers, b # 0.
Div(a, b) == DivStep(a, b, MaxOf(a \cup {0}), {}, {}).q

Rem(a, b) == DivStep(a, b, MaxOf(a \cup {0}), {}, {}).r

\* 2^e, exact.
Pow2(e) == {e}

\* (v >> i) & 1 == 1
BitSet(v, i) == i \in v

----------------------------------------------------------------------------
(* Option values and the panic of a checked overflow.                      *)

None == [tag |-> "None"]

Some(v) == [tag |-> "Some", val |-> v]

Panic == [tag |-> "Panic"]

IsSome(r) == r.tag = "Some"

\* What a call gives in this build: a panic when an operation overflows and
\* the build checks overflow, else the value computed with wrapping.
Outcome(overflows, value) ==
    IF overflows /\ build = "debug" THEN Panic ELSE value

Builds == {"debug", "release"}

----------------------------------------------------------------------------
(* Tile (lib.rs:37-349).  A tile is [zoom, x, y]: zoom an integer, x and y *)
(* u32 words.                                                              *)

\* 2u32.pow(e): wraps to 2^e mod 2^32, which is 0 from e = 32 on.
pow_u32(e) == Wrap(Pow2(e), U32Bits)

pow_u32_overflows(e) == ~Fits(Pow2(e), U32Bits)

MkTile(zoom, x, y) == [zoom |-> zoom, x |-> x, y |-> y]

Tile_new(zoom, x, y) ==
    IF zoom >= ZoomLimit THEN None
    ELSE IF Lt(x, pow_u32(zoom)) /\ Lt(y, pow_u32(zoom))
         THEN Some(MkTile(zoom, x, y))
         ELSE None

Tile_new_overflows(zoom, x, y) ==
    zoom < ZoomLimit /\ pow_u32_overflows(zoom)

Tile_parent(t) ==
    IF t.zoom = 0 THEN None
    ELSE Tile_new(t.zoom - 1, Shr(t.x, 1), Shr(t.y, 1))

Tile_parent_overflows(t) ==
    t.zoom # 0 /\ Tile_new_overflows(t.zoom - 1, Shr(t.x, 1), Shr(t.y, 1))

\* The four children, built as struct literals: Tile::new is not called.
Tile_subtiles(t) ==
    IF t.zoom = U8Max THEN None
    ELSE LET z == t.zoom + 1
             x == Wrap(Mul(W(2), t.x), U32Bits)
             y == Wrap(Mul(W(2), t.y), U32Bits)
         IN Some(<<MkTile(z, x, y),
                   MkTile(z, Wrap(Add(x, W(1)), U32Bits), y),
                   MkTile(z, x, Wrap(Add(y, W(1)), U32Bits)),
                   MkTile(z, Wrap(Add(x, W(1)), U32Bits),
                             Wrap(Add(y, W(1)), U32Bits))>>)

Tile_subtiles_overflows(t) ==
    /\ t.zoom # U8Max
    /\ \/ ~Fits(Mul(W(2), t.x), U32Bits)
       \/ ~Fits(Mul(W(2), t.y), U32Bits)

----------------------------------------------------------------------------
(* SpecTile: a caller that builds a tile with Tile::new and walks from the *)
(* tiles it holds with parent() and subtiles().  Tile::new reads no state, *)
(* so calling it again later reaches nothing that the first call does not. *)

\* Up to this zoom the caller goes on from any of the four subtiles; deeper,
\* from the first one only.
BranchZoom == 2

\* The arguments the caller tries: the ends of the u8 and u32 ranges and the
\* values next to the limits 2^zoom, 32 and 100.
ZoomInputs == {0, 1, 2, 3, 31, 32, 33, 99, 100, U8Max}

CoordInputs == {W(0), W(1), W(2), W(3), W(4), W(7), W(8), 0..30, {31}, 0..31}

NoObj == [tag |-> "None"]

\* The tiles the caller holds after the last call.
Held ==
    IF ret.tag # "Some" THEN {}
    ELSE IF call.op = "subtiles"
         THEN {ret.val[i] : i \in IF obj.zoom < BranchZoom THEN 1..4 ELSE {1}}
         ELSE {ret.val}

InitTile ==
    /\ build \in Builds
    /\ obj = NoObj
    /\ call = [op |-> "init"]
    /\ ret = None
    /\ out = <<>>

NewTile(zoom, x, y) ==
    /\ call.op = "init"
    /\ obj' = NoObj
    /\ call' = [op |-> "Tile::new", zoom |-> zoom, x |-> x, y |-> y]
    /\ ret' = Outcome(Tile_new_overflows(zoom, x, y), Tile_new(zoom, x, y))
    /\ UNCHANGED <<build, out>>

Parent(t) ==
    /\ obj' = t
    /\ call' = [op |-> "parent"]
    /\ ret' = Outcome(Tile_parent_overflows(t), Tile_parent(t))
    /\ UNCHANGED <<build, out>>

Subtiles(t) ==
    /\ obj' = t
    /\ call' = [op |-> "subtiles"]
    /\ ret' = Outcome(Tile_subtiles_overflows(t), Tile_subtiles(t))
    /\ UNCHANGED <<build, out>>

NextTile ==
    \/ \E zoom \in ZoomInputs, x \in CoordInputs, y \in CoordInputs :
           NewTile(zoom, x, y)
    \/ \E t \in Held : Parent(t)
    \/ \E t \in Held : Subtiles(t)

SpecTile == InitTile /\ [][NextTile]_vars

\* The Tile invariant of the data model, with 2^zoom exact.
TileValid(t) ==
    t.zoom < ZoomLimit /\ Lt(t.x, Pow2(t.zoom)) /\ Lt(t.y, Pow2(t.zoom))

\* The tiles a call has returned.
Returned ==
    IF ret.tag # "Some" THEN {}
    ELSE IF call.op = "subtiles" THEN {ret.val[i] : i \in 1..4}
         ELSE {ret.val}

\* C1: Tile::new(zoom, x, y) returns the tile of exactly these fields when
\* zoom < 100, x < 2^zoom and y < 2^zoom, and None in every other case.
C1_TileNewContract ==
    call.op = "Tile::new" =>
        ret = IF /\ call.zoom < ZoomLimit
                 /\ Lt(call.x, Pow2(call.zoom))
                 /\ Lt(call.y, Pow2(call.zoom))
              THEN Some(MkTile(call.zoom, call.x, call.y))
              ELSE None

\* C2: every tile the public API hands out satisfies zoom < 100,
\* x < 2^zoom and y < 2^zoom.
C2_TileInvariant == \A t \in Returned : TileValid(t)

\* C4: a valid tile of zoom >= 1 has the parent (zoom-1, x/2, y/2) and is one
\* of its parent's subtiles, a zoom-0 tile has no parent; the subtiles of a
\* valid tile are (zoom+1, 2x, 2y), (zoom+1, 2x+1, 2y), (zoom+1, 2x, 2y+1),
\* (zoom+1, 2x+1, 2y+1) in this order, and each has the tile as its parent.
C4_ParentSubtiles ==
    /\ (call.op = "parent" /\ TileValid(obj)) =>
           IF obj.zoom = 0 THEN ret = None
           ELSE /\ ret = Some(MkTile(obj.zoom - 1, Shr(obj.x, 1), Shr(obj.y, 1)))
                /\ LET sub == Tile_subtiles(ret.val)
                   IN IsSome(sub) /\ \E i \in 1..4 : sub.val[i] = obj
    /\ (call.op = "subtiles" /\ TileValid(obj) /\ ret # None) =>
           /\ ret = Some(<<
                  MkTile(obj.zoom + 1, Shl(obj.x, 1), Shl(obj.y, 1)),
                  MkTile(obj.zoom + 1, Add(Shl(obj.x, 1), W(1)), Shl(obj.y, 1)),
                  MkTile(obj.zoom + 1, Shl(obj.x, 1), Add(Shl(obj.y, 1), W(1))),
                  MkTile(obj.zoom + 1, Add(Shl(obj.x, 1), W(1)),
                                       Add(Shl(obj.y, 1), W(1)))>>)
           /\ \A i \in 1..4 :
                  Outcome(Tile_parent_overflows(ret.val[i]),
                          Tile_parent(ret.val[i])) = Some(obj)

----------------------------------------------------------------------------
(* The Morton (Z-order) codec (lib.rs:1439-1472).                          *)

\* The mutant of xy_to_zorder that parses `1 << (i * 2) + 1` as
\* `(1 << (i * 2)) + 1`: a set y bit i becomes bit 2i and bit 0.
xy_to_zorder_shift_then_add(x, y) ==
    {i * 2 : i \in {i \in 0..(U32Bits - 1) : BitSet(x, i)}}
        \cup UNION {{i * 2, 0} : i \in {i \in 0..(U32Bits - 1) : BitSet(y, i)}}

\* for i in 0..32: bit i of x goes to bit 2i, bit i of y to bit 2i + 1.
xy_to_zorder(x, y) ==
    {i * 2 : i \in {i \in 0..(U32Bits - 1) : BitSet(x, i)}}
        \cup {(i * 2) + 1 : i \in {i \in 0..(U32Bits - 1) : BitSet(y, i)}}

\* for i in 0..32: bit 2i of the index goes to bit i of x, bit 2i + 1 to y.
zorder_to_xy(zorder) ==
    <<{i \in 0..(U32Bits - 1) : BitSet(zorder, i * 2)},
      {i \in 0..(U32Bits - 1) : BitSet(zorder, (i * 2) + 1)}>>

----------------------------------------------------------------------------
(* SpecZorder: a coordinate is encoded and the index is decoded again.     *)

InitZorder ==
    /\ build \in Builds
    /\ obj = NoObj
    /\ call = [op |-> "init"]
    /\ ret = None
    /\ out = <<>>

\* obj keeps the coordinate that was encoded.
Encode(x, y) ==
    /\ call.op = "init"
    /\ obj' = <<x, y>>
    /\ call' = [op |-> "xy_to_zorder", x |-> x, y |-> y]
    /\ ret' = xy_to_zorder(x, y)
    /\ UNCHANGED <<build, out>>

Decode ==
    /\ call.op = "xy_to_zorder"
    /\ call' = [op |-> "zorder_to_xy", zorder |-> ret]
    /\ ret' = zorder_to_xy(ret)
    /\ UNCHANGED <<build, obj, out>>

NextZorder ==
    \/ \E x \in CoordInputs, y \in CoordInputs : Encode(x, y)
    \/ Decode

SpecZorder == InitZorder /\ [][NextZorder]_vars

\* C3: zorder_to_xy(xy_to_zorder(x, y)) = (x, y); the index is a u64 with
\* bit i of x at bit 2i and bit i of y at bit 2i + 1, so (1, 0) encodes to 1
\* and (0, 1) to 2.
C3_ZorderRoundTrip ==
    /\ call.op = "zorder_to_xy" => ret = obj
    /\ call.op = "xy_to_zorder" =>
           /\ Fits(ret, U64Bits)
           /\ \A i \in 0..(U32Bits - 1) :
                  /\ (2 * i) \in ret <=> i \in call.x
                  /\ (2 * i + 1) \in ret <=> i \in call.y
           /\ (call.x = W(1) /\ call.y = W(0)) => ret = W(1)
           /\ (call.x = W(0) /\ call.y = W(1)) => ret = W(2)

\* A coordinate with the top bits set has made the round trip.
C3_Witness ==
    /\ call.op = "zorder_to_xy"
    /\ obj = <<0..31, {31}>>
    /\ call.zorder = {2 * i : i \in 0..31} \cup {63}
    /\ ret = obj

----------------------------------------------------------------------------
(* AllTilesIterator (lib.rs:383-408): the cursor is [next_zoom,            *)
(* next_zorder].  A step gives the advanced iterator `it` and the value    *)
(* `ret` that next() returns.                                              *)

Tile_all == [next_zoom |-> 0, next_zorder |-> W(0)]

\* The mutant of AllTilesIterator_next that ends a zoom at the first tile of
\* the last column (x == max_tile_no), whatever its y.
AllTilesIterator_next_x_only(it) ==
    LET zoom == it.next_zoom
        xy == zorder_to_xy(it.next_zorder)
        tile == Tile_new(zoom, xy[1], xy[2])
        max_tile_no == SubWrap(pow_u32(zoom), W(1), U32Bits)
    IN IF xy[1] = max_tile_no
       THEN [it |-> [next_zoom |-> (zoom + 1) % (2 ^ U8Bits),
                     next_zorder |-> W(0)],
             ret |-> tile]
       ELSE [it |-> [next_zoom |-> zoom,
                     next_zorder |-> Wrap(Add(it.next_zorder, W(1)), U64Bits)],
             ret |-> tile]

AllTilesIterator_next(it) ==
    LET zoom == it.next_zoom
        xy == zorder_to_xy(it.next_zorder)
        tile == Tile_new(zoom, xy[1], xy[2])
        max_tile_no == SubWrap(pow_u32(zoom), W(1), U32Bits)
    IN IF xy[1] = max_tile_no /\ xy[2] = max_tile_no
       THEN [it |-> [next_zoom |-> (zoom + 1) % (2 ^ U8Bits),
                     next_zorder |-> W(0)],
             ret |-> tile]
       ELSE [it |-> [next_zoom |-> zoom,
                     next_zorder |-> Wrap(Add(it.next_zorder, W(1)), U64Bits)],
             ret |-> tile]

AllTilesIterator_next_overflows(it) ==
    LET zoom == it.next_zoom
        xy == zorder_to_xy(it.next_zorder)
        max_tile_no == SubWrap(pow_u32(zoom), W(1), U32Bits)
    IN \/ Tile_new_overflows(zoom, xy[1], xy[2])
       \/ pow_u32_overflows(zoom)
       \/ Lt(pow_u32(zoom), W(1))
       \/ IF xy[1] = max_tile_no /\ xy[2] = max_tile_no
          THEN zoom + 1 > U8Max
          ELSE ~Fits(Add(it.next_zorder, W(1)), U64Bits)

----------------------------------------------------------------------------
(* SpecAll: Tile::all() is pulled.                                         *)

\* The iterator is pulled as long as its cursor is at a zoom up to this one.
MaxAllZoom == 3

InitAll ==
    /\ build \in Builds
    /\ obj = Tile_all
    /\ call = [op |-> "Tile::all"]
    /\ ret = None
    /\ out = <<>>

AllNext ==
    /\ ret.tag # "Panic"
    /\ obj.next_zoom <= MaxAllZoom
    /\ LET step == AllTilesIterator_next(obj)
           panics == build = "debug" /\ AllTilesIterator_next_overflows(obj)
       IN /\ obj' = IF panics THEN obj ELSE step.it
          /\ ret' = IF panics THEN Panic ELSE step.ret
          /\ out' = IF panics THEN out ELSE Append(out, step.ret)
    /\ call' = [op |-> "next"]
    /\ UNCHANGED build

NextAll == AllNext

SpecAll == InitAll /\ [][NextAll]_vars

RECURSIVE Pow4(_)
Pow4(z) == IF z = 0 THEN 1 ELSE 4 * Pow4(z - 1)

RECURSIVE TilesBelow(_)
\* The number of tiles of the zooms below z: 1 + 4 + ... + 4^(z-1).
TilesBelow(z) == IF z = 0 THEN 0 ELSE Pow4(z - 1) + TilesBelow(z - 1)

RECURSIVE ZoomOfPull(_, _)
\* The zoom of the k-th tile (k >= 1) of a zoom-by-zoom walk, from zoom z on.
ZoomOfPull(k, z) == IF k <= TilesBelow(z + 1) THEN z ELSE ZoomOfPull(k, z + 1)

RECURSIVE MortonX(_)
\* The x of Morton index n: its even bits.
MortonX(n) == IF n = 0 THEN 0 ELSE (n % 2) + 2 * MortonX(n \div 4)

MortonY(n) == MortonX(n \div 2)

\* The k-th tile of the walk in Morton order within each zoom.
MortonTile(k) ==
    LET z == ZoomOfPull(k, 0)
        n == k - 1 - TilesBelow(z)
    IN MkTile(z, W(MortonX(n)), W(MortonY(n)))

\* The tiles of a zoom that a sequence of results holds, as integers.
IndexesOfZoom(seq, z) ==
    {k \in 1..Len(seq) : IsSome(seq[k]) /\ seq[k].val.zoom = z}

AllTilesOfZoom(z) ==
    {MkTile(z, W(x), W(y)) : x \in 0..(2 ^ z - 1), y \in 0..(2 ^ z - 1)}

----------------------------------------------------------------------------
(* AllTilesToZoomIterator (lib.rs:410-488, 1426-1437): the cursor is       *)
(* [max_zoom, next_zoom, next_x, next_y].                                  *)

Tile_all_to_zoom(max_zoom) ==
    [max_zoom |-> max_zoom, next_zoom |-> 0, next_x |-> W(0), next_y |-> W(0)]

\* usize::checked_mul and checked_add: None when the result does not fit.
checked_mul(a, b) ==
    IF Fits(Mul(a, b), UsizeBits) THEN Some(Mul(a, b)) ELSE None

checked_add(a, b) ==
    IF Fits(Add(a, b), UsizeBits) THEN Some(Add(a, b)) ELSE None

remaining_in_this_zoom(next_zoom, next_x, next_y) ==
    IF next_zoom = 0 /\ next_x = W(0) /\ next_y = W(0) THEN Some(W(1))
    ELSE LET max_tile_no == pow_u32(next_zoom)
             remaining_in_column == SubWrap(max_tile_no, next_y, U32Bits)
             remaining_rows ==
                 SubWrap(SubWrap(max_tile_no, next_x, U32Bits), W(1), U32Bits)
             remaining_after_this_column ==
                 checked_mul(remaining_rows, max_tile_no)
         IN IF remaining_after_this_column = None THEN None
            ELSE checked_add(remaining_in_column,
                             remaining_after_this_column.val)

remaining_in_this_zoom_overflows(next_zoom, next_x, next_y) ==
    /\ ~(next_zoom = 0 /\ next_x = W(0) /\ next_y = W(0))
    /\ LET max_tile_no == pow_u32(next_zoom)
       IN \/ pow_u32_overflows(next_zoom)
          \/ Lt(max_tile_no, next_y)
          \/ Lt(max_tile_no, next_x)
          \/ Lt(SubWrap(max_tile_no, next_x, U32Bits), W(1))

\* The largest zoom whose count num_tiles_in_zoom computes.
MaxCountedZoom == 5

\* 2u64.pow(2u32.pow(zoom)) as usize: 2 to the power 2^zoom.
num_tiles_in_zoom(zoom) ==
    IF zoom = 0 THEN Some(W(1))
    ELSE IF zoom <= MaxCountedZoom
         THEN Some(Wrap(Wrap(Pow2(IntOf(pow_u32(zoom))), U64Bits), UsizeBits))
         ELSE None

\* (usize::MAX, None): too many to count.
TooLarge == [lo |-> 0..(UsizeBits - 1), hi |-> None]

Exactly(n) == [lo |-> n, hi |-> Some(n)]

RECURSIVE size_hint_loop(_, _, _)
\* for i in start..end { total = total.checked_add(num_tiles_in_zoom(i)) }
size_hint_loop(i, end, total) ==
    IF i >= end THEN Exactly(total)
    ELSE LET tiles_this_zoom == num_tiles_in_zoom(i)
         IN IF tiles_this_zoom = None THEN TooLarge
            ELSE LET new_total == checked_add(total, tiles_this_zoom.val)
                 IN IF new_total = None THEN TooLarge
                    ELSE size_hint_loop(i + 1, end, new_total.val)

AllTilesToZoomIterator_size_hint(it) ==
    IF it.next_zoom > it.max_zoom THEN Exactly(W(0))
    ELSE LET remaining_in_this_level ==
                 remaining_in_this_zoom(it.next_zoom, it.next_x, it.next_y)
         IN IF remaining_in_this_level = None THEN TooLarge
            ELSE size_hint_loop((it.next_zoom + 1) % (2 ^ U8Bits),
                                (it.max_zoom + 1) % (2 ^ U8Bits),
                                remaining_in_this_level.val)

AllTilesToZoomIterator_size_hint_overflows(it) ==
    /\ it.next_zoom <= it.max_zoom
    /\ \/ remaining_in_this_zoom_overflows(it.next_zoom, it.next_x, it.next_y)
       \/ /\ remaining_in_this_zoom(it.next_zoom, it.next_x, it.next_y) # None
          /\ (it.next_zoom + 1 > U8Max \/ it.max_zoom + 1 > U8Max)

\* The mutant of AllTilesToZoomIterator_next that scans row by row: x
\* advances fastest, then y.
AllTilesToZoomIterator_next_x_fastest(it) ==
    IF it.next_zoom > it.max_zoom THEN [it |-> it, ret |-> None]
    ELSE LET tile == Tile_new(it.next_zoom, it.next_x, it.next_y)
             max_tile_no == SubWrap(pow_u32(it.next_zoom), W(1), U32Bits)
         IN [ret |-> tile,
             it |-> IF Lt(it.next_x, max_tile_no)
                    THEN [it EXCEPT !.next_x = Wrap(Add(@, W(1)), U32Bits)]
                    ELSE IF Lt(it.next_y, max_tile_no)
                    THEN [it EXCEPT !.next_y = Wrap(Add(@, W(1)), U32Bits),
                                    !.next_x = W(0)]
                    ELSE IF it.next_zoom < U8Max
                    THEN [it EXCEPT !.next_zoom = @ + 1,
                                    !.next_x = W(0), !.next_y = W(0)]
                    ELSE it]

AllTilesToZoomIterator_next(it) ==
    IF it.next_zoom > it.max_zoom THEN [it |-> it, ret |-> None]
    ELSE LET tile == Tile_new(it.next_zoom, it.next_x, it.next_y)
             max_tile_no == SubWrap(pow_u32(it.next_zoom), W(1), U32Bits)
         IN [ret |-> tile,
             it |-> IF Lt(it.next_y, max_tile_no)
                    THEN [it EXCEPT !.next_y = Wrap(Add(@, W(1)), U32Bits)]
                    ELSE IF Lt(it.next_x, max_tile_no)
                    THEN [it EXCEPT !.next_x = Wrap(Add(@, W(1)), U32Bits),
                                    !.next_y = W(0)]
                    ELSE IF it.next_zoom < U8Max
                    THEN [it EXCEPT !.next_zoom = @ + 1,
                                    !.next_x = W(0), !.next_y = W(0)]
                    ELSE it]

AllTilesToZoomIterator_next_overflows(it) ==
    /\ it.next_zoom <= it.max_zoom
    /\ \/ Tile_new_overflows(it.next_zoom, it.next_x, it.next_y)
       \/ pow_u32_overflows(it.next_zoom)
       \/ Lt(pow_u32(it.next_zoom), W(1))

----------------------------------------------------------------------------
(* SpecToZoom: Tile::all_to_zoom(max_zoom) is pulled, and asked for its    *)
(* size_hint() between the pulls.                                          *)

\* Every max_zoom up to this one is walked to its end.
MaxToZoom == 3

\* The number of pulls made on one iterator.
MaxPulls == 88

\* The max_zoom values tried: the small ones, those around the last counted
\* zoom and the top of the u8 range.
MaxZoomInputs == (0..MaxToZoom) \cup {5, 6, 7, 16, 100, 254, U8Max}

InitToZoom ==
    /\ build \in Builds
    /\ \E max_zoom \in MaxZoomInputs :
           /\ obj = Tile_all_to_zoom(max_zoom)
           /\ call = [op |-> "Tile::all_to_zoom", max_zoom |-> max_zoom]
    /\ ret = None
    /\ out = <<>>

ToZoomNext ==
    /\ ret.tag # "Panic"
    /\ Len(out) < MaxPulls
    /\ LET step == AllTilesToZoomIterator_next(obj)
           panics == build = "debug" /\ AllTilesToZoomIterator_next_overflows(obj)
       IN /\ obj' = IF panics THEN obj ELSE step.it
          /\ ret' = IF panics THEN Panic ELSE step.ret
          /\ out' = IF panics THEN out ELSE Append(out, step.ret)
    /\ call' = [op |-> "next"]
    /\ UNCHANGED build

ToZoomSizeHint ==
    /\ ret.tag # "Panic"
    /\ call' = [op |-> "size_hint"]
    /\ ret' = Outcome(AllTilesToZoomIterator_size_hint_overflows(obj),
                      [tag |-> "Hint",
                       val |-> AllTilesToZoomIterator_size_hint(obj)])
    /\ UNCHANGED <<build, obj, out>>

NextToZoom == ToZoomNext \/ ToZoomSizeHint

SpecToZoom == InitToZoom /\ [][NextToZoom]_vars

\* The k-th tile of the walk that scans each zoom by x, then y.
RowMajorTile(k) ==
    LET z == ZoomOfPull(k, 0)
        n == k - 1 - TilesBelow(z)
    IN MkTile(z, W(n \div (2 ^ z)), W(n % (2 ^ z)))

\* t comes before u in the order by zoom, then x, then y.
TileBefore(t, u) ==
    \/ t.zoom < u.zoom
    \/ t.zoom = u.zoom /\ Lt(t.x, u.x)
    \/ t.zoom = u.zoom /\ t.x = u.x /\ Lt(t.y, u.y)

Sub(a, b) == SubWrap(a, b, MaxOf(a \cup {0}) + 1)

RECURSIVE TilesOfZooms(_, _)
\* 4^from + ... + 4^to, exact.
TilesOfZooms(from, to) ==
    IF from > to THEN W(0) ELSE Add(Pow2(2 * from), TilesOfZooms(from + 1, to))

\* What the iterator has still to yield: the rest of its zoom and the zooms
\* after it up to max_zoom.
TilesToCome(it) ==
    IF it.next_zoom > it.max_zoom THEN W(0)
    ELSE Add(Sub(Pow2(2 * it.next_zoom),
                 Add(Mul(it.next_x, Pow2(it.next_zoom)), it.next_y)),
             TilesOfZooms(it.next_zoom + 1, it.max_zoom))

\* C7: whenever size_hint() is exact, (n, Some(n)), n is the number of tiles
\* still to come: the rest of the current zoom plus 4^z for every later zoom
\* z <= max_zoom.
C7_SizeHintExact ==
    (call.op = "size_hint" /\ ret.tag = "Hint" /\ ret.val.hi = Some(ret.val.lo))
        => ret.val.lo = TilesToCome(obj)

\* C8: the size_hint() of a fresh all_to_zoom(max_zoom) with max_zoom >= 6 is
\* (usize::MAX, None).
C8_SizeHintTooLarge ==
    (call.op = "size_hint" /\ out = <<>> /\ obj.max_zoom >= 6)
        => ret = [tag |-> "Hint", val |-> TooLarge]

----------------------------------------------------------------------------
(* Metatile (lib.rs:519-645).  A metatile is [scale, zoom, x, y]: scale    *)
(* and zoom integers (u8), x and y u32 words.                              *)

\* u8::is_power_of_two: exactly one bit is set.
is_power_of_two(n) == Cardinality(W(n)) = 1

MkMetatile(scale, zoom, x, y) ==
    [scale |-> scale, zoom |-> zoom, x |-> x, y |-> y]

Metatile_new(scale, zoom, x, y) ==
    IF ~is_power_of_two(scale) THEN None
    ELSE IF zoom >= ZoomLimit THEN None
    ELSE IF Lt(x, pow_u32(zoom)) /\ Lt(y, pow_u32(zoom))
         THEN LET s == W(scale)
              IN Some(MkMetatile(scale, zoom,
                                 Wrap(Mul(Div(x, s), s), U32Bits),
                                 Wrap(Mul(Div(y, s), s), U32Bits)))
         ELSE None

Metatile_new_overflows(scale, zoom, x, y) ==
    is_power_of_two(scale) /\ zoom < ZoomLimit /\ pow_u32_overflows(zoom)

\* The mutant of Metatile_size that never clips the scale to the width of
\* the zoom.
Metatile_size_unclipped(m) == m.scale

\* `num_tiles_in_zoom as u8` keeps the low 8 bits.
Metatile_size(m) ==
    LET tiles_in_zoom == pow_u32(m.zoom)
    IN IF Lt(tiles_in_zoom, W(m.scale))
       THEN IntOf(Wrap(tiles_in_zoom, U8Bits))
       ELSE m.scale

Metatile_size_overflows(m) == pow_u32_overflows(m.zoom)

----------------------------------------------------------------------------
(* SpecMeta: a caller builds a metatile with Metatile::new and asks for    *)
(* its size().                                                             *)

\* The scales tried: powers of two of a u8, and 0, 3, 255 which are none.
ScaleInputs == {0, 1, 2, 3, 8, 128, U8Max}

MetaZoomInputs == {0, 1, 2, 3, 4, 31, 32, 99, 100}

InitMeta ==
    /\ build \in Builds
    /\ obj = NoObj
    /\ call = [op |-> "init"]
    /\ ret = None
    /\ out = <<>>

NewMetatile(scale, zoom, x, y) ==
    /\ call.op = "init"
    /\ obj' = NoObj
    /\ call' = [op |-> "Metatile::new", scale |-> scale, zoom |-> zoom,
                x |-> x, y |-> y]
    /\ ret' = Outcome(Metatile_new_overflows(scale, zoom, x, y),
                      Metatile_new(scale, zoom, x, y))
    /\ UNCHANGED <<build, out>>

Size ==
    /\ call.op = "Metatile::new"
    /\ IsSome(ret)
    /\ obj' = ret.val
    /\ call' = [op |-> "size"]
    /\ ret' = Outcome(Metatile_size_overflows(ret.val),
                      [tag |-> "U8", val |-> Metatile_size(ret.val)])
    /\ UNCHANGED <<build, out>>

NextMeta ==
    \/ \E scale \in ScaleInputs, zoom \in MetaZoomInputs,
          x \in CoordInputs, y \in CoordInputs :
           NewMetatile(scale, zoom, x, y)
    \/ Size

SpecMeta == InitMeta /\ [][NextMeta]_vars

\* n is one of 1, 2, 4, ..., 128.
PowerOfTwo(n) == \E e \in 0..(U8Bits - 1) : n = 2 ^ e

\* x rounded down to a multiple of n.
RoundDown(x, n) == Sub(x, Rem(x, W(n)))

\* C9: Metatile::new(scale, zoom, x, y) is None when scale is no power of
\* two, when zoom >= 100 or when x or y >= 2^zoom; otherwise it is the
\* metatile of this scale and zoom with x and y rounded down to a multiple of
\* scale, which building again from its own x and y gives back.
C9_MetatileNewContract ==
    call.op = "Metatile::new" =>
        IF \/ ~PowerOfTwo(call.scale)
           \/ call.zoom >= ZoomLimit
           \/ ~Lt(call.x, Pow2(call.zoom))
           \/ ~Lt(call.y, Pow2(call.zoom))
        THEN ret = None
        ELSE /\ ret = Some(MkMetatile(call.scale, call.zoom,
                                      RoundDown(call.x, call.scale),
                                      RoundDown(call.y, call.scale)))
             /\ Outcome(Metatile_new_overflows(call.scale, call.zoom,
                                               ret.val.x, ret.val.y),
                        Metatile_new(call.scale, call.zoom,
                                     ret.val.x, ret.val.y)) = ret

\* C10: the size() of a metatile built by Metatile::new is min(scale, 2^zoom):
\* 1, 2, 4 at the zooms 0, 1, 2 for scale 8, and 8 from zoom 3 on.
C10_MetatileSize ==
    call.op = "size" =>
        /\ ret.tag = "U8"
        /\ W(ret.val) = IF Lt(Pow2(obj.zoom), W(obj.scale))
                        THEN Pow2(obj.zoom)
                        ELSE W(obj.scale)
        /\ obj.scale = 8 =>
               ret.val = IF obj.zoom <= 2 THEN <<1, 2, 4>>[obj.zoom + 1] ELSE 8

\* A scale-8 metatile of zoom 1, where the zoom is 2 tiles wide, has size 2.
C10_Witness ==
    /\ call.op = "size"
    /\ obj = MkMetatile(8, 1, W(0), W(0))
    /\ ret = [tag |-> "U8", val |-> 2]

----------------------------------------------------------------------------
(* The tiles of a metatile (lib.rs:323-325, 625-639).                      *)

Tile_metatile(t, scale) == Metatile_new(scale, t.zoom, t.x, t.y)

Tile_metatile_overflows(t, scale) ==
    Metatile_new_overflows(scale, t.zoom, t.x, t.y)

\* The mutant of Metatile_tiles that lets x advance fastest.
Metatile_tiles_x_fastest(m) ==
    LET size == W(Metatile_size(m))
        count == IntOf(Wrap(Mul(size, size), U32Bits))
    IN [k \in 1..count |->
           LET n == W(k - 1)
           IN MkTile(m.zoom,
                     Wrap(Add(m.x, Rem(n, size)), U32Bits),
                     Wrap(Add(m.y, Div(n, size)), U32Bits))]

\* The tiles are built as struct literals, without Tile::new.
Metatile_tiles(m) ==
    LET size == W(Metatile_size(m))
        count == IntOf(Wrap(Mul(size, size), U32Bits))
    IN [k \in 1..count |->
           LET n == W(k - 1)
               i == Div(n, size)
               j == Rem(n, size)
           IN MkTile(m.zoom,
                     Wrap(Add(m.x, i), U32Bits),
                     Wrap(Add(m.y, j), U32Bits))]

Metatile_tiles_overflows(m) ==
    LET size == W(Metatile_size(m))
        count == IntOf(Wrap(Mul(size, size), U32Bits))
    IN \/ Metatile_size_overflows(m)
       \/ ~Fits(Mul(size, size), U32Bits)
       \/ \E k \in 1..count :
              \/ ~Fits(Add(m.x, Div(W(k - 1), size)), U32Bits)
              \/ ~Fits(Add(m.y, Rem(W(k - 1), size)), U32Bits)

----------------------------------------------------------------------------
(* SpecMetaTiles: a caller builds a metatile with Metatile::new, takes its *)
(* tiles() and asks one of them for its metatile of the same scale.        *)

TilesScaleInputs == {0, 1, 2, 3, 4, 8}

TilesZoomInputs == {0, 1, 2, 3, 4, 31, 32}

Tiles ==
    /\ call.op = "Metatile::new"
    /\ IsSome(ret)
    /\ obj' = ret.val
    /\ call' = [op |-> "tiles"]
    /\ ret' = Outcome(Metatile_tiles_overflows(ret.val),
                      [tag |-> "Tiles", val |-> Metatile_tiles(ret.val)])
    /\ UNCHANGED <<build, out>>

MetatileOf(k) ==
    /\ call.op = "tiles"
    /\ ret.tag = "Tiles"
    /\ k \in 1..Len(ret.val)
    /\ obj' = obj
    /\ call' = [op |-> "Tile::metatile", tile |-> ret.val[k],
                scale |-> obj.scale]
    /\ ret' = Outcome(Tile_metatile_overflows(ret.val[k], obj.scale),
                      Tile_metatile(ret.val[k], obj.scale))
    /\ UNCHANGED <<build, out>>

NextMetaTiles ==
    \/ \E scale \in TilesScaleInputs, zoom \in TilesZoomInputs,
          x \in CoordInputs, y \in CoordInputs :
           NewMetatile(scale, zoom, x, y)
    \/ Tiles
    \/ \E k \in 1..(IF call.op = "tiles" /\ ret.tag = "Tiles"
                     THEN Len(ret.val) ELSE 0) : MetatileOf(k)

SpecMetaTiles == InitMeta /\ [][NextMetaTiles]_vars

\* min(scale, 2^zoom) as an integer, for a scale below 2^8.
ClippedSize(scale, zoom) ==
    IF zoom < U8Bits /\ 2 ^ zoom < scale THEN 2 ^ zoom ELSE scale

\* C11: the tiles() of a metatile m built by Metatile::new are size()*size()
\* distinct tiles of m's zoom, the k-th (from 0) being x = m.x + k div size,
\* y = m.y + k mod size (x-major, y advancing fastest), all with
\* x, y < 2^zoom; and Tile::metatile(m.scale) of each of them is m.
C11_MetatileTiles ==
    /\ call.op = "tiles" =>
           /\ ret.tag = "Tiles"
           /\ LET size == ClippedSize(obj.scale, obj.zoom)
                  tiles == ret.val
              IN /\ Len(tiles) = size * size
                 /\ Cardinality({tiles[k] : k \in 1..Len(tiles)}) = Len(tiles)
                 /\ \A k \in 1..Len(tiles) :
                        /\ tiles[k].zoom = obj.zoom
                        /\ tiles[k].x = Add(obj.x, W((k - 1) \div size))
                        /\ tiles[k].y = Add(obj.y, W((k - 1) % size))
                        /\ Lt(tiles[k].x, Pow2(obj.zoom))
                        /\ Lt(tiles[k].y, Pow2(obj.zoom))
    /\ call.op = "Tile::metatile" => ret = Some(obj)

\* The tile (2, 3, 1) of the scale-2 metatile (2, 2, 0) gives it back.
C11_Witness ==
    /\ call.op = "Tile::metatile"
    /\ obj = MkMetatile(2, 2, W(2), W(0))
    /\ call.tile = MkTile(2, W(3), W(1))
    /\ ret = Some(obj)

----------------------------------------------------------------------------
(* Floating point (f32).  A float is held exactly, as the dyadic number    *)
(* [neg, mant, exp] = (-1)^neg * mant * 2^exp with mant a word; it is kept *)
(* canonical (mant odd, or 0 = [FALSE, {}, 0]) so that equal numbers are   *)
(* equal records.  An f32 operation is the exact operation followed by the *)
(* rounding to 24 significant bits, ties to even.  The exponents met here  *)
(* stay far inside the range of f32, and no NaN or infinity arises.        *)

F32MantBits == 24

MinOf(S) == CHOOSE m \in S : \A k \in S : m <= k

Dyadic(neg, mant, exp) ==
    IF mant = {} THEN [neg |-> FALSE, mant |-> {}, exp |-> 0]
    ELSE LET k == MinOf(mant)
         IN [neg |-> neg, mant |-> Shr(mant, k), exp |-> exp + k]

\* The float n * 2^e of a literal, 0 <= n < 2^24.
F(n, e) == Dyadic(FALSE, W(n), e)

Neg(d) == Dyadic(~d.neg, d.mant, d.exp)

\* The nearest f32 of an exact number, ties to the even mantissa.
f32_round(d) ==
    IF d.mant = {} \/ MaxOf(d.mant) < F32MantBits THEN d
    ELSE LET drop == MaxOf(d.mant) - (F32MantBits - 1)
             q == Shr(d.mant, drop)
             half == (drop - 1) \in d.mant
             sticky == \E i \in d.mant : i < drop - 1
             up == half /\ (sticky \/ 0 \in q)
         IN Dyadic(d.neg, IF up THEN Add(q, {0}) ELSE q, d.exp + drop)

\* a - b, exact.
ExactSub(a, b) ==
    LET e == IF a.exp < b.exp THEN a.exp ELSE b.exp
        ma == Shl(a.mant, a.exp - e)
        mb == Shl(b.mant, b.exp - e)
    IN IF a.neg # b.neg THEN Dyadic(a.neg, Add(ma, mb), e)
       ELSE IF Lt(ma, mb) THEN Dyadic(~a.neg, Sub(mb, ma), e)
       ELSE Dyadic(a.neg, Sub(ma, mb), e)

f32_sub(a, b) == f32_round(ExactSub(a, b))

f32_add(a, b) == f32_round(ExactSub(a, Neg(b)))

f32_mul(a, b) ==
    f32_round(Dyadic(a.neg # b.neg, Mul(a.mant, b.mant), a.exp + b.exp))

\* a / 2^k, which is exact.
f32_div_pow2(a, k) == Dyadic(a.neg, a.mant, a.exp - k)

\* `x as f32` of a u32.
f32_from_u32(x) == f32_round(Dyadic(FALSE, x, 0))

f32_lt(a, b) == ExactSub(a, b).neg

f32_le(a, b) == ~ExactSub(b, a).neg

f32_gt(a, b) == f32_lt(b, a)

f32_ge(a, b) == f32_le(b, a)

\* The integer part of a number >= 0, as a word.
Trunc(d) ==
    IF d.neg THEN {}
    ELSE IF d.exp >= 0 THEN Shl(d.mant, d.exp) ELSE Shr(d.mant, 0 - d.exp)

\* `v as u32` of a float's integer part: the cast saturates.
as_u32(v) == IF Fits(v, U32Bits) THEN v ELSE 0..(U32Bits - 1)

----------------------------------------------------------------------------
(* LatLon and BBox (lib.rs:967-1006, 1058-1169).  A longitude is its f32   *)
(* in degrees.  A latitude in degrees is                                   *)
(*     atan(sinh(PI * a)) * 180 / PI,    a = 1 - 2y/n  (the ordinate),     *)
(* a transcendental function that TLC cannot evaluate; it is increasing in *)
(* a, and the program only compares latitudes and maps them back to a, so  *)
(* a latitude is held by the f32 of its ordinate: 1 is the northern edge   *)
(* of the map (85.0511 degrees), 0 the equator, -1 the southern edge, and  *)
(* 2 and -2 stand for the poles (90 and -90 degrees).  Two tile rows that  *)
(* the f32 ordinates tell apart are told apart by the model, the f32       *)
(* degrees of the program may still coincide: the model errs on the side   *)
(* of distinct latitudes.                                                  *)

Lat90 == F(2, 0)

LatMax == F(1, 0)

Lon180 == F(45, 2)

Deg360 == F(45, 3)

MkLatLon(lat, lon) == [lat |-> lat, lon |-> lon]

LatLon_new(lat, lon) ==
    IF /\ f32_le(Neg(Lat90), lat) /\ f32_le(lat, Lat90)
       /\ f32_le(Neg(Lon180), lon) /\ f32_le(lon, Lon180)
    THEN Some(MkLatLon(lat, lon))
    ELSE None

MkBBox(top, left, bottom, right) ==
    [top |-> top, left |-> left, bottom |-> bottom, right |-> right]

BBox_new(top, left, bottom, right) ==
    IF /\ f32_le(Neg(Lat90), top) /\ f32_le(top, Lat90)
       /\ f32_le(Neg(Lat90), bottom) /\ f32_le(bottom, Lat90)
       /\ f32_le(Neg(Lon180), left) /\ f32_le(left, Lon180)
       /\ f32_le(Neg(Lon180), right) /\ f32_le(right, Lon180)
    THEN Some(MkBBox(top, left, bottom, right))
    ELSE None

BBox_new_from_points(topleft, bottomright) ==
    MkBBox(topleft.lat, topleft.lon, bottomright.lat, bottomright.lon)

\* The mutant of BBox_contains_point that takes in the bottom edge.
BBox_contains_point_bottom_edge(bbox, point) ==
    /\ f32_le(point.lat, bbox.top)
    /\ f32_ge(point.lat, bbox.bottom)
    /\ f32_ge(point.lon, bbox.left)
    /\ f32_lt(point.lon, bbox.right)

BBox_contains_point(bbox, point) ==
    /\ f32_le(point.lat, bbox.top)
    /\ f32_gt(point.lat, bbox.bottom)
    /\ f32_ge(point.lon, bbox.left)
    /\ f32_lt(point.lon, bbox.right)

BBox_overlaps_bbox(bbox, other) ==
    /\ f32_lt(bbox.left, other.right)
    /\ f32_gt(bbox.right, other.left)
    /\ f32_gt(bbox.top, other.bottom)
    /\ f32_lt(bbox.bottom, other.top)

\* tile_nw_lat_lon(zoom, x, y) for zoom < 128, where n = 2f32.powi(zoom) is
\* finite; the LatLon::new(..).unwrap() at its end panics on None.
tile_nw_lat_lon(zoom, x, y) ==
    LET lon_deg == f32_sub(f32_mul(f32_div_pow2(x, zoom), Deg360), Lon180)
        ordinate == f32_sub(F(1, 0),
                            f32_div_pow2(f32_mul(F(2, 0), y), zoom))
    IN LatLon_new(ordinate, lon_deg)

Tile_nw_corner(t) ==
    tile_nw_lat_lon(t.zoom, f32_from_u32(t.x), f32_from_u32(t.y))

Tile_ne_corner(t) ==
    tile_nw_lat_lon(t.zoom, f32_add(f32_from_u32(t.x), F(1, 0)),
                    f32_from_u32(t.y))

Tile_sw_corner(t) ==
    tile_nw_lat_lon(t.zoom, f32_from_u32(t.x),
                    f32_add(f32_from_u32(t.y), F(1, 0)))

Tile_se_corner(t) ==
    tile_nw_lat_lon(t.zoom, f32_add(f32_from_u32(t.x), F(1, 0)),
                    f32_add(f32_from_u32(t.y), F(1, 0)))

\* Tile::bbox panics when a corner is no LatLon.
Tile_bbox_panics(t) == ~IsSome(Tile_nw_corner(t)) \/ ~IsSome(Tile_se_corner(t))

Tile_bbox(t) ==
    BBox_new_from_points(Tile_nw_corner(t).val, Tile_se_corner(t).val)

\* lat_lon_to_tile(lat, lon, zoom) for zoom < 32.  It computes in f64:
\*   xtile = trunc(n * ((lon + 180) / 360))
\*   ytile = trunc(n * (1 - ln(tan(lat) + 1/cos(lat)) / PI) / 2)
\* where ln(tan(lat) + 1/cos(lat)) / PI is the ordinate of the latitude,
\* clipped to the edges of the map.  The model takes the integer part of the
\* exact number, which the f64 result has whenever the exact number is no
\* integer (the f64 error is 2^-29 of the f32 spacing): the latitudes given
\* to it lie off the rows of the zooms asked for, and the longitudes either
\* off the columns or on a multiple of 360/2^k degrees, where the division
\* by 360 is exact.
lat_lon_to_tile(lat, lon, zoom) ==
    LET clipped == IF f32_gt(lat, LatMax) THEN LatMax
                   ELSE IF f32_lt(lat, Neg(LatMax)) THEN Neg(LatMax)
                   ELSE lat
        xtile(east) ==
            IF east.neg THEN {}
            ELSE IF east.exp + zoom >= 0
                 THEN Div(Shl(east.mant, east.exp + zoom), W(360))
                 ELSE Div(east.mant, Shl(W(360), 0 - (east.exp + zoom)))
        ytile(south) ==
            Trunc(Dyadic(south.neg, south.mant, south.exp + zoom - 1))
    IN <<as_u32(xtile(ExactSub(lon, Neg(Lon180)))),
         as_u32(ytile(ExactSub(F(1, 0), clipped)))>>

----------------------------------------------------------------------------
(* Text parsers (lib.rs:351-381, 647-679).  A text is the sequence of its  *)
(* characters, each a string of length one; a result is Ok(v), Err(e) or   *)
(* a panic (an unwrap() of a failed integer parse).                        *)

Ok(v) == [tag |-> "Ok", val |-> v]

Err(e) == [tag |-> "Err", val |-> e]

DigitChars == <<"0", "1", "2", "3", "4", "5", "6", "7", "8", "9">>

IsDigitChar(c) == \E d \in 1..10 : DigitChars[d] = c

DigitValue(c) == (CHOOSE d \in 1..10 : DigitChars[d] = c) - 1

AllDigits(s) == \A k \in 1..Len(s) : IsDigitChar(s[k])

\* The places of the character c in the text s.
Places(s, c) == {k \in 1..Len(s) : s[k] = c}

RECURSIVE DecimalValue(_)
\* The exact number that a text of digits writes, as a word.
DecimalValue(s) ==
    IF s = <<>> THEN {}
    ELSE Add(Mul(DecimalValue(SubSeq(s, 1, Len(s) - 1)), W(10)),
             W(DigitValue(s[Len(s)])))

\* str::parse::<u8>() and str::parse::<u32>() of a text of digits: the
\* number when it fits the type, else an error.
parse_uint(s, bits) ==
    IF Fits(DecimalValue(s), bits) THEN Ok(DecimalValue(s)) ELSE Err("overflow")

\* "^(?P<zoom>[0-9]?[0-9])/(?P<x>[0-9]{1,10})/(?P<y>[0-9]{1,10})$": the
\* three groups of the text, or None.
TILE_RE_captures(s) ==
    LET slashes == Places(s, "/")
        groups(i, j) == [zoom |-> SubSeq(s, 1, i - 1),
                         x |-> SubSeq(s, i + 1, j - 1),
                         y |-> SubSeq(s, j + 1, Len(s))]
        matches(g) == /\ AllDigits(g.zoom) /\ Len(g.zoom) \in 1..2
                      /\ AllDigits(g.x) /\ Len(g.x) \in 1..10
                      /\ AllDigits(g.y) /\ Len(g.y) \in 1..10
        captures(g) == IF matches(g) THEN Some(g) ELSE None
    IN IF Cardinality(slashes) # 2 THEN None
       ELSE captures(groups(MinOf(slashes), MaxOf(slashes)))

\* <Tile as FromStr>::from_str: a result, or a panic when the unwrap() of a
\* parse fails.
Tile_from_str(s) ==
    LET made(zoom, x, y) ==
            IF x.tag = "Err" \/ y.tag = "Err" \/ zoom.tag = "Err" THEN Panic
            ELSE IF ~IsSome(Tile_new(IntOf(zoom.val), x.val, y.val))
            THEN Err("Invalid X or Y for this zoom")
            ELSE Ok(Tile_new(IntOf(zoom.val), x.val, y.val).val)
        parsed(caps) == made(parse_uint(caps.zoom, U8Bits),
                             parse_uint(caps.x, U32Bits),
                             parse_uint(caps.y, U32Bits))
    IN IF TILE_RE_captures(s) = None
       THEN Err("Tile Z/X/Y regex didn't match")
       ELSE parsed(TILE_RE_captures(s).val)

\* An operation of from_str overflows: the power of Tile::new.
Tile_from_str_overflows(s) ==
    LET overflows(caps) ==
            /\ Fits(DecimalValue(caps.x), U32Bits)
            /\ Fits(DecimalValue(caps.y), U32Bits)
            /\ Tile_new_overflows(IntOf(DecimalValue(caps.zoom)),
                                  DecimalValue(caps.x), DecimalValue(caps.y))
    IN TILE_RE_captures(s) # None /\ overflows(TILE_RE_captures(s).val)

\* "^(?P<scale>[0-9]+) (?P<zoom>[0-9]?[0-9])/(?P<x>[0-9]{1,10})/
\* (?P<y>[0-9]{1,10})$": the four groups of the text, or None.
METATILE_RE_captures(s) ==
    LET spaces == Places(s, " ")
        captures(scale, tile) ==
            IF AllDigits(scale) /\ Len(scale) >= 1 /\ tile # None
            THEN Some([scale |-> scale, zoom |-> tile.val.zoom,
                       x |-> tile.val.x, y |-> tile.val.y])
            ELSE None
        split(i) == captures(SubSeq(s, 1, i - 1),
                             TILE_RE_captures(SubSeq(s, i + 1, Len(s))))
    IN IF Cardinality(spaces) # 1 THEN None ELSE split(MinOf(spaces))

\* <Metatile as FromStr>::from_str; the error value is ().
Metatile_from_str(s) ==
    LET made(scale, zoom, x, y) ==
            IF scale.tag = "Err" \/ zoom.tag = "Err"
                   \/ x.tag = "Err" \/ y.tag = "Err"
            THEN Panic
            ELSE IF ~IsSome(Metatile_new(IntOf(scale.val), IntOf(zoom.val),
                                         x.val, y.val))
            THEN Err(<<>>)
            ELSE Ok(Metatile_new(IntOf(scale.val), IntOf(zoom.val),
                                 x.val, y.val).val)
        parsed(caps) == made(parse_uint(caps.scale, U8Bits),
                             parse_uint(caps.zoom, U8Bits),
                             parse_uint(caps.x, U32Bits),
                             parse_uint(caps.y, U32Bits))
    IN IF METATILE_RE_captures(s) = None THEN Err(<<>>)
       ELSE parsed(METATILE_RE_captures(s).val)

Metatile_from_str_overflows(s) ==
    LET overflows(caps) ==
            /\ Fits(DecimalValue(caps.scale), U8Bits)
            /\ Fits(DecimalValue(caps.x), U32Bits)
            /\ Fits(DecimalValue(caps.y), U32Bits)
            /\ Metatile_new_overflows(IntOf(DecimalValue(caps.scale)),
                                      IntOf(DecimalValue(caps.zoom)),
                                      DecimalValue(caps.x),
                                      DecimalValue(caps.y))
    IN METATILE_RE_captures(s) # None
           /\ overflows(METATILE_RE_captures(s).val)

----------------------------------------------------------------------------
(* MetatilesIterator (lib.rs:681-888): the iterator is                     *)
(* [scale, curr_zoom, maxzoom, curr_zorder, bbox, curr_zoom_width_height,  *)
(* curr_zoom_start_xy, total, tile_list_file], the last five None or Some; *)
(* tile_list_file holds the lines of the file that are still to be read,   *)
(* each with its line end.  A step gives the                               *)
(* advanced iterator `it`, the value `ret` that next() returns (computed   *)
(* with wrapping arithmetic) and `overflows`, whether an operation of the  *)
(* step overflowed, in which case the step panics in a debug build.  The   *)
(* scale is not 0: the divisions by it would panic.                        *)

MetatilesIterator_all(scale) ==
    [scale |-> scale, curr_zoom |-> 0, maxzoom |-> 32, curr_zorder |-> W(0),
     bbox |-> None, curr_zoom_width_height |-> None,
     curr_zoom_start_xy |-> None, total |-> None, tile_list_file |-> None]

\* Metatile::all asserts that the scale is a power of two.
Metatile_all(scale) == MetatilesIterator_all(scale)

Metatile_all_panics(scale) == ~is_power_of_two(scale)

\* The corners of the box as metatile coordinates (x1, y1, x2, y2).
set_zoom_width_height_corners(it) ==
    LET scale == W(it.scale)
        bbox == it.bbox.val
        corners(t1, t2) == <<Div(t1[1], scale), Div(t1[2], scale),
                             Div(t2[1], scale), Div(t2[2], scale)>>
    IN corners(lat_lon_to_tile(bbox.top, bbox.left, it.curr_zoom),
               lat_lon_to_tile(bbox.bottom, bbox.right, it.curr_zoom))

set_zoom_width_height(it) ==
    IF it.bbox = None THEN it
    ELSE LET width(c) ==
                 Wrap(Add(SubWrap(c[3], c[1], U32Bits), W(1)), U32Bits)
             height(c) ==
                 Wrap(Add(SubWrap(c[4], c[2], U32Bits), W(1)), U32Bits)
             width_height(c) == <<width(c), height(c)>>
         IN [it EXCEPT !.curr_zoom_width_height =
                           Some(width_height(
                               set_zoom_width_height_corners(it)))]

set_zoom_width_height_overflows(it) ==
    /\ it.bbox # None
    /\ LET overflows(c) ==
               \/ Lt(c[3], c[1])
               \/ Lt(c[4], c[2])
               \/ ~Fits(Add(SubWrap(c[3], c[1], U32Bits), W(1)), U32Bits)
               \/ ~Fits(Add(SubWrap(c[4], c[2], U32Bits), W(1)), U32Bits)
       IN overflows(set_zoom_width_height_corners(it))

set_zoom_start_xy(it) ==
    IF it.bbox = None THEN it
    ELSE LET start(t1) == <<Div(t1[1], W(it.scale)), Div(t1[2], W(it.scale))>>
         IN [it EXCEPT !.curr_zoom_start_xy =
                           Some(start(lat_lon_to_tile(
                               it.bbox.val.top, it.bbox.val.left,
                               it.curr_zoom)))]

MetatilesIterator_new_for_bbox_zoom(scale, bbox, minzoom, maxzoom) ==
    set_zoom_start_xy(set_zoom_width_height(
        [scale |-> scale, curr_zoom |-> minzoom, maxzoom |-> maxzoom,
         curr_zorder |-> W(0), bbox |-> bbox,
         curr_zoom_width_height |-> None, curr_zoom_start_xy |-> None,
         total |-> None, tile_list_file |-> None]))

MetatilesIterator_new_for_bbox_zoom_overflows(scale, bbox, minzoom, maxzoom) ==
    set_zoom_width_height_overflows(
        [scale |-> scale, curr_zoom |-> minzoom, maxzoom |-> maxzoom,
         curr_zorder |-> W(0), bbox |-> bbox,
         curr_zoom_width_height |-> None, curr_zoom_start_xy |-> None,
         total |-> None, tile_list_file |-> None])

\* The width and height of the grid of the current zoom.
zoom_width_height(it) ==
    IF it.curr_zoom_width_height = None
    THEN LET scale == W(it.scale)
             max_num == pow_u32(it.curr_zoom)
             max == IF Rem(max_num, scale) # {}
                    THEN Add(Div(max_num, scale), W(1))
                    ELSE Div(max_num, scale)
         IN <<max, max>>
    ELSE it.curr_zoom_width_height.val

\* The mutant of the loop of next_from_zorder that restarts a zoom instead
\* of moving on to the next.
RECURSIVE next_from_zorder_same_zoom(_, _)
next_from_zorder_same_zoom(it, overflowed) ==
    IF it.curr_zoom > it.maxzoom
    THEN [it |-> it, ret |-> None, overflows |-> overflowed]
    ELSE LET zoom == it.curr_zoom
             scale == W(it.scale)
             wh == zoom_width_height(it)
             max_zorder_for_zoom ==
                 xy_to_zorder(SubWrap(wh[1], W(1), U32Bits),
                              SubWrap(wh[2], W(1), U32Bits))
             ij == zorder_to_xy(it.curr_zorder)
             x == Wrap(Mul(ij[1], scale), U32Bits)
             y == Wrap(Mul(ij[2], scale), U32Bits)
         IN IF Lt(max_zorder_for_zoom, it.curr_zorder)
            THEN next_from_zorder_same_zoom(
                     [it EXCEPT !.curr_zorder = W(0)], overflowed)
            ELSE [it |-> [it EXCEPT !.curr_zorder = Add(@, W(1))],
                  ret |-> Metatile_new(it.scale, zoom, x, y),
                  overflows |-> overflowed]

RECURSIVE next_from_zorder_loop(_, _)
next_from_zorder_loop(it, overflowed) ==
    IF it.curr_zoom > it.maxzoom
    THEN [it |-> it, ret |-> None, overflows |-> overflowed]
    ELSE LET zoom == it.curr_zoom
             scale == W(it.scale)
             wh == zoom_width_height(it)
             width == wh[1]
             height == wh[2]
             max_zorder_for_zoom ==
                 xy_to_zorder(SubWrap(width, W(1), U32Bits),
                              SubWrap(height, W(1), U32Bits))
             ij == zorder_to_xy(it.curr_zorder)
             i == ij[1]
             j == ij[2]
             start == it.curr_zoom_start_xy
             bx == IF start = None THEN i ELSE Add(start.val[1], i)
             by == IF start = None THEN j ELSE Add(start.val[2], j)
             x == Wrap(bx, U32Bits)
             y == Wrap(by, U32Bits)
             here == \/ overflowed
                     \/ it.curr_zoom_width_height = None
                            /\ pow_u32_overflows(zoom)
                     \/ width = {}
                     \/ height = {}
                     \/ ~Fits(bx, U32Bits)
                     \/ ~Fits(by, U32Bits)
         IN IF Lt(max_zorder_for_zoom, it.curr_zorder)
            THEN LET moved == set_zoom_start_xy(
                                  [it EXCEPT
                                      !.curr_zoom = (zoom + 1) % (2 ^ U8Bits),
                                      !.curr_zorder = W(0)])
                 IN next_from_zorder_loop(
                        set_zoom_width_height(moved),
                        \/ here
                        \/ zoom + 1 > U8Max
                        \/ set_zoom_width_height_overflows(moved))
            ELSE IF Lt(width, i) \/ Lt(height, j)
            THEN next_from_zorder_loop(
                     [it EXCEPT !.curr_zorder = Wrap(Add(@, W(1)), U64Bits)],
                     here \/ ~Fits(Add(it.curr_zorder, W(1)), U64Bits))
            ELSE [it |-> [it EXCEPT
                             !.curr_zorder = Wrap(Add(@, W(1)), U64Bits)],
                  ret |-> Metatile_new(it.scale, zoom,
                                       Wrap(Mul(x, scale), U32Bits),
                                       Wrap(Mul(y, scale), U32Bits)),
                  overflows |->
                      \/ here
                      \/ ~Fits(Add(it.curr_zorder, W(1)), U64Bits)
                      \/ ~Fits(Mul(x, scale), U32Bits)
                      \/ ~Fits(Mul(y, scale), U32Bits)
                      \/ Metatile_new_overflows(
                             it.scale, zoom, Wrap(Mul(x, scale), U32Bits),
                             Wrap(Mul(y, scale), U32Bits))]

MetatilesIterator_next_from_zorder(it) == next_from_zorder_loop(it, FALSE)

\* The file is a sequence of lines; total is their number.
MetatilesIterator_new_from_filelist(lines) ==
    [scale |-> 0, curr_zoom |-> 0, maxzoom |-> 0, curr_zorder |-> W(0),
     bbox |-> None, curr_zoom_width_height |-> None,
     curr_zoom_start_xy |-> None, total |-> Some(Len(lines)),
     tile_list_file |-> Some(lines)]

RECURSIVE trim_end(_)
\* str::trim_end: the text without the white space at its end.
trim_end(s) ==
    IF s # <<>> /\ s[Len(s)] \in {" ", "\n", "\r", "\t"}
    THEN trim_end(SubSeq(s, 1, Len(s) - 1))
    ELSE s

\* Result::ok of a parse; a panic stays a panic.
ok(r) == IF r.tag = "Ok" THEN Some(r.val)
         ELSE IF r.tag = "Err" THEN None ELSE r

\* read_line gives the next line, or the empty text at the end of the file.
MetatilesIterator_next_from_file(it) ==
    LET file == it.tile_list_file.val
        s == IF file = <<>> THEN <<>> ELSE Head(file)
        rest == IF file = <<>> THEN <<>> ELSE Tail(file)
    IN [it |-> [it EXCEPT !.tile_list_file = Some(rest)],
        ret |-> ok(Metatile_from_str(trim_end(s))),
        overflows |-> Metatile_from_str_overflows(trim_end(s))]

MetatilesIterator_next(it) ==
    IF it.tile_list_file # None
    THEN MetatilesIterator_next_from_file(it)
    ELSE MetatilesIterator_next_from_zorder(it)

----------------------------------------------------------------------------
(* SpecMetaAll: Metatile::all(scale) is pulled.                            *)

\* The iterator is pulled as long as its cursor is at a zoom up to this one.
MaxMetaAllZoom == 4

MetaAllScales == {1, 2, 4, 8}

InitMetaAll ==
    /\ build \in Builds
    /\ \E scale \in MetaAllScales :
           /\ obj = Metatile_all(scale)
           /\ call = [op |-> "Metatile::all", scale |-> scale]
    /\ ret = None
    /\ out = <<>>

MetaAllNext ==
    /\ ret.tag # "Panic"
    /\ obj.curr_zoom <= MaxMetaAllZoom
    /\ LET step == MetatilesIterator_next(obj)
           panics == build = "debug" /\ step.overflows
       IN /\ obj' = IF panics THEN obj ELSE step.it
          /\ ret' = IF panics THEN Panic ELSE step.ret
          /\ out' = IF panics THEN out ELSE Append(out, step.ret)
    /\ call' = [op |-> "next", scale |-> obj.scale]
    /\ UNCHANGED build

NextMetaAll == MetaAllNext

SpecMetaAll == InitMetaAll /\ [][NextMetaAll]_vars

\* ceil(2^z / scale) for a power-of-two scale: the width of the metatile
\* grid of zoom z.
MetaGrid(scale, z) == IF 2 ^ z <= scale THEN 1 ELSE (2 ^ z) \div scale

RECURSIVE MetaPull(_, _, _)
\* The zoom and the Morton index of the k-th pull (from 0) of a walk of the
\* full grids that is at zoom z.
MetaPull(scale, k, z) ==
    LET cells == MetaGrid(scale, z) * MetaGrid(scale, z)
    IN IF k < cells THEN <<z, k>> ELSE MetaPull(scale, k - cells, z + 1)

AllMetatilesOfZoom(scale, z) ==
    {MkMetatile(scale, z, W(scale * a), W(scale * b)) :
         a \in 0..(MetaGrid(scale, z) - 1), b \in 0..(MetaGrid(scale, z) - 1)}

----------------------------------------------------------------------------
(* SpecMetaBBox: MetatilesIterator::new_for_bbox_zoom(scale, bbox,         *)
(* minzoom, maxzoom) is pulled.  The boxes have their corners on a grid of *)
(* 64 by 64 points of the map, at odd indexes: such a corner lies strictly *)
(* inside a tile at every zoom up to 5, and the boxes have their top north *)
(* of their bottom and their left west of their right.                     *)

\* The zooms asked for go up to this one.
MaxBBoxZoom == 3

\* The iterator is pulled this many times.
MaxBBoxPulls == 90

GridBits == 6

\* The longitude -180 + 360 k / 64 degrees.
GridLon(k) == ExactSub(F(45 * k, 3 - GridBits), Lon180)

\* The latitude of ordinate 1 - 2 k / 64.
GridLat(k) == ExactSub(F(1, 0), F(k, 1 - GridBits))

GridBBox(top, left, bottom, right) ==
    BBox_new(GridLat(top), GridLon(left), GridLat(bottom), GridLon(right))

\* top, left, bottom, right: west and east of the equator, north of it,
\* the whole map, a small box, a wide one; and None, the whole world.
BBoxInputs ==
    {GridBBox(31, 1, 33, 31), GridBBox(31, 33, 33, 63),
     GridBBox(1, 1, 31, 63), GridBBox(1, 1, 63, 63),
     GridBBox(21, 43, 23, 45), GridBBox(11, 1, 13, 51), None}

MetaBBoxScales == {1, 2, 8}

InitMetaBBox ==
    /\ build \in Builds
    /\ \E scale \in MetaBBoxScales, bbox \in BBoxInputs,
          minzoom \in 0..MaxBBoxZoom, maxzoom \in 0..MaxBBoxZoom :
           /\ minzoom <= maxzoom
           /\ obj = MetatilesIterator_new_for_bbox_zoom(scale, bbox,
                                                        minzoom, maxzoom)
           /\ call = [op |-> "new_for_bbox_zoom", scale |-> scale,
                      minzoom |-> minzoom, maxzoom |-> maxzoom]
           /\ ret = Outcome(MetatilesIterator_new_for_bbox_zoom_overflows(
                                scale, bbox, minzoom, maxzoom), None)
    /\ out = <<>>

MetaBBoxNext ==
    /\ ret.tag # "Panic"
    /\ Len(out) < MaxBBoxPulls
    /\ LET step == MetatilesIterator_next(obj)
           panics == build = "debug" /\ step.overflows
       IN /\ obj' = IF panics THEN obj ELSE step.it
          /\ ret' = IF panics THEN Panic ELSE step.ret
          /\ out' = IF panics THEN out ELSE Append(out, step.ret)
    /\ call' = [call EXCEPT !.op = "next"]
    /\ UNCHANGED build

NextMetaBBox == MetaBBoxNext

SpecMetaBBox == InitMetaBBox /\ [][NextMetaBBox]_vars

\* The metatile grid of a box at a zoom: the metatile cell x1, y1 of its
\* top-left corner, and its width and height, each the difference of the
\* corners' tile coordinates divided by the scale, plus 1.
BoxGrid(bbox, scale, zoom) ==
    LET t1 == lat_lon_to_tile(bbox.top, bbox.left, zoom)
        t2 == lat_lon_to_tile(bbox.bottom, bbox.right, zoom)
        x1 == Div(t1[1], W(scale))
        y1 == Div(t1[2], W(scale))
    IN [x1 |-> x1, y1 |-> y1,
        width |-> Add(Sub(Div(t2[1], W(scale)), x1), W(1)),
        height |-> Add(Sub(Div(t2[2], W(scale)), y1), W(1))]

\* C13: over a bounding box, every metatile emitted at a zoom has its local
\* grid coordinates (i, j), measured from the box's top-left metatile cell,
\* inside the box's metatile grid of that zoom: 0 <= i < width and
\* 0 <= j < height.
C13_EmittedInsideGrid ==
    obj.bbox # None =>
        \A k \in 1..Len(out) :
            IsSome(out[k]) =>
                LET m == out[k].val
                    g == BoxGrid(obj.bbox.val, m.scale, m.zoom)
                    x == Div(m.x, W(m.scale))
                    y == Div(m.y, W(m.scale))
                IN /\ Le(g.x1, x) /\ Lt(Sub(x, g.x1), g.width)
                   /\ Le(g.y1, y) /\ Lt(Sub(y, g.y1), g.height)

\* The metatiles of the grid that the iterator walks at a zoom: the box's
\* grid, or the whole world's when there is no box.
WalkGrid(it, zoom) ==
    IF it.bbox = None THEN AllMetatilesOfZoom(it.scale, zoom)
    ELSE LET g == BoxGrid(it.bbox.val, it.scale, zoom)
         IN {MkMetatile(it.scale, zoom,
                        Mul(Add(g.x1, W(i)), W(it.scale)),
                        Mul(Add(g.y1, W(j)), W(it.scale))) :
                 i \in 0..(IntOf(g.width) - 1),
                 j \in 0..(IntOf(g.height) - 1)}

\* C14: new_for_bbox_zoom(scale, bbox, minzoom, maxzoom) yields only
\* metatiles of the zooms minzoom..maxzoom, in non-decreasing zoom order;
\* when it returns None it has yielded a metatile of every zoom of the range
\* and every metatile of the grid of maxzoom, and every pull after a None
\* returns None.  (The latest result is compared with every earlier one; each
\* prefix of the walk is a reachable state.)
C14_BBoxZoomWalk ==
    LET n == Len(out)
        yielded == {out[k].val : k \in {j \in 1..n : IsSome(out[j])}}
    IN /\ \A m \in yielded :
              call.minzoom <= m.zoom /\ m.zoom <= call.maxzoom
       /\ \A j \in 1..(n - 1) :
              /\ IsSome(out[j]) /\ IsSome(out[n]) =>
                     out[j].val.zoom <= out[n].val.zoom
              /\ out[j] = None => out[n] = None
       /\ n > 0 /\ out[n] = None =>
              /\ \A z \in call.minzoom..call.maxzoom :
                     \E m \in yielded : m.zoom = z
              /\ WalkGrid(obj, call.maxzoom) \subseteq yielded

----------------------------------------------------------------------------
(* BBoxTilesIterator (lib.rs:1302-1355): the iterator is [bbox, tiles,     *)
(* tile_index].  A step gives the advanced iterator `it`, the value `ret`  *)
(* that next() returns, `overflows` (an operation overflowed: a panic in a *)
(* debug build) and `panics` (a panic in every build: the index is out of  *)
(* bounds, or a corner of a tile is no LatLon).                            *)

BBoxTilesIterator_new(bbox) ==
    [bbox |-> bbox, tiles |-> <<Tile_new(0, W(0), W(0)).val>>,
     tile_index |-> 0]

BBox_tiles(bbox) == BBoxTilesIterator_new(bbox)

\* The children of one tile that the loop pushes.
new_tiles_of(bbox, t) ==
    IF Tile_subtiles(t) = None THEN <<>>
    ELSE LET sub == Tile_subtiles(t).val
         IN SelectSeq(sub, LAMBDA s : BBox_overlaps_bbox(bbox, Tile_bbox(s)))

RECURSIVE new_tiles_loop(_, _, _)
\* The loop over self.tiles from index k (from 1) on: new_tiles.
new_tiles_loop(bbox, tiles, k) ==
    IF k > Len(tiles) THEN <<>>
    ELSE new_tiles_of(bbox, tiles[k]) \o new_tiles_loop(bbox, tiles, k + 1)

\* The mutant of BBoxTilesIterator_next that forgets the fourth child.
BBoxTilesIterator_next_three_children(it) ==
    LET expand == it.tile_index >= Len(it.tiles)
        nt == [k \in 1..Len(it.tiles) |->
                  LET sub == Tile_subtiles(it.tiles[k]).val
                  IN SelectSeq(SubSeq(sub, 1, 3),
                         LAMBDA s : BBox_overlaps_bbox(it.bbox, Tile_bbox(s)))]
        RECURSIVE Cat(_)
        Cat(k) == IF k > Len(nt) THEN <<>> ELSE nt[k] \o Cat(k + 1)
        tiles == IF expand THEN Cat(1) ELSE it.tiles
        tile_index == IF expand THEN 0 ELSE it.tile_index
    IN [it |-> [it EXCEPT !.tiles = tiles, !.tile_index = tile_index + 1],
        ret |-> IF tile_index < Len(tiles) THEN Some(tiles[tile_index + 1])
                ELSE None,
        overflows |-> FALSE,
        panics |-> tile_index >= Len(tiles)]

BBoxTilesIterator_next(it) ==
    LET expand == it.tile_index >= Len(it.tiles)
        tiles == IF expand THEN new_tiles_loop(it.bbox, it.tiles, 1)
                 ELSE it.tiles
        tile_index == IF expand THEN 0 ELSE it.tile_index
        parents == {it.tiles[k] : k \in 1..Len(it.tiles)}
        children == UNION {{Tile_subtiles(t).val[c] : c \in 1..4} :
                              t \in {p \in parents : Tile_subtiles(p) # None}}
    IN [it |-> [it EXCEPT !.tiles = tiles, !.tile_index = tile_index + 1],
        ret |-> IF tile_index < Len(tiles) THEN Some(tiles[tile_index + 1])
                ELSE None,
        overflows |-> expand /\ \E k \in 1..Len(it.tiles) :
                                    Tile_subtiles_overflows(it.tiles[k]),
        panics |-> \/ expand /\ \E s \in children : Tile_bbox_panics(s)
                   \/ tile_index >= Len(tiles)]

----------------------------------------------------------------------------
(* SpecBBoxTiles: bbox.tiles() is pulled.                                  *)

\* The iterator is pulled as long as the tiles it holds are of a zoom up to
\* this one.
MaxBBoxTilesZoom == 3

InitBBoxTiles ==
    /\ build \in Builds
    /\ \E bbox \in BBoxInputs \ {None} : obj = BBox_tiles(bbox.val)
    /\ call = [op |-> "BBox::tiles"]
    /\ ret = None
    /\ out = <<>>

BBoxTilesNext ==
    /\ ret.tag # "Panic"
    /\ \A k \in 1..Len(obj.tiles) : obj.tiles[k].zoom <= MaxBBoxTilesZoom
    /\ LET step == BBoxTilesIterator_next(obj)
           panics == step.panics \/ (build = "debug" /\ step.overflows)
       IN /\ obj' = IF panics THEN obj ELSE step.it
          /\ ret' = IF panics THEN Panic ELSE step.ret
          /\ out' = IF panics THEN out ELSE Append(out, step.ret)
    /\ call' = [op |-> "next"]
    /\ UNCHANGED build

NextBBoxTiles == BBoxTilesNext

SpecBBoxTiles == InitBBoxTiles /\ [][NextBBoxTiles]_vars

\* The strict overlap test of two boxes.
StrictOverlap(a, b) ==
    /\ f32_lt(a.left, b.right) /\ f32_lt(b.left, a.right)
    /\ f32_lt(b.bottom, a.top) /\ f32_lt(a.bottom, b.top)

\* The four children of a tile, in subtiles() order.
ChildrenOf(t) ==
    LET x == Shl(t.x, 1)
        y == Shl(t.y, 1)
    IN <<MkTile(t.zoom + 1, x, y), MkTile(t.zoom + 1, x \cup {0}, y),
         MkTile(t.zoom + 1, x, y \cup {0}),
         MkTile(t.zoom + 1, x \cup {0}, y \cup {0})>>

RECURSIVE OverlappingChildren(_, _, _)
\* The children of the tiles parents[k..] whose footprint overlaps the box,
\* in parent order and then subtiles() order.
OverlappingChildren(bbox, parents, k) ==
    IF k > Len(parents) THEN <<>>
    ELSE SelectSeq(ChildrenOf(parents[k]),
                   LAMBDA c : StrictOverlap(bbox, Tile_bbox(c)))
             \o OverlappingChildren(bbox, parents, k + 1)

\* The tiles of a zoom that a sequence of results holds, in order.
TilesOfZoom(seq, z) ==
    LET some == SelectSeq(seq, LAMBDA r : IsSome(r) /\ r.val.zoom = z)
    IN [k \in 1..Len(some) |-> some[k].val]

IsPrefix(s, t) == Len(s) <= Len(t) /\ s = SubSeq(t, 1, Len(s))

\* C15: bbox.tiles() yields the zoom-0 tile first and then zoom after zoom:
\* the tiles it yields at zoom z + 1 are, in this order, the children of the
\* tiles yielded at zoom z (in parent order, then subtiles() order) whose
\* footprint overlaps the box strictly, and all of them are yielded before
\* any tile of zoom z + 2; so every tile of zoom >= 1 overlaps the box and
\* comes after its parent.
C15_BBoxTilesOrder ==
    LET n == Len(out)
    IN n > 0 =>
        /\ out[1] = Some(MkTile(0, W(0), W(0)))
        /\ \A k \in 1..n : IsSome(out[k])
        /\ \A j \in 1..(n - 1) : out[j].val.zoom <= out[n].val.zoom
        /\ \A z \in 1..out[n].val.zoom :
               LET expected == OverlappingChildren(
                                   obj.bbox, TilesOfZoom(out, z - 1), 1)
               IN IF z < out[n].val.zoom
                  THEN TilesOfZoom(out, z) = expected
                  ELSE IsPrefix(TilesOfZoom(out, z), expected)
        /\ out[n].val.zoom >= 1 =>
               /\ StrictOverlap(obj.bbox, Tile_bbox(out[n].val))
               /\ \E j \in 1..(n - 1) :
                      out[j].val = MkTile(out[n].val.zoom - 1,
                                          Shr(out[n].val.x, 1),
                                          Shr(out[n].val.y, 1))

\* The box in the north of the map has yielded the tiles of the zooms 0, 1
\* and 2 that it overlaps and is at its first tile of zoom 3.
C15_Witness ==
    /\ call.op = "next"
    /\ obj.bbox = GridBBox(1, 1, 31, 63).val
    /\ Len(out) = 12
    /\ ret = Some(MkTile(3, W(0), W(0)))

----------------------------------------------------------------------------
(* AllSubTilesIterator (lib.rs:490-517): the iterator is [_tiles], a       *)
(* queue of tiles.                                                         *)

AllSubTilesIterator_new_from_tile(base_tile) ==
    [_tiles |-> IF Tile_subtiles(base_tile) = None THEN <<>>
                ELSE Tile_subtiles(base_tile).val]

AllSubTilesIterator_new_from_tile_overflows(base_tile) ==
    Tile_subtiles_overflows(base_tile)

Tile_all_subtiles_iter(t) == AllSubTilesIterator_new_from_tile(t)

\* next(): the advanced iterator, the value returned, and whether the
\* subtiles() of the popped tile overflows.
AllSubTilesIterator_next(it) ==
    IF it._tiles = <<>>
    THEN [it |-> it, ret |-> None, overflows |-> FALSE]
    ELSE LET next == Head(it._tiles)
             rest == Tail(it._tiles)
         IN [it |-> [_tiles |-> IF Tile_subtiles(next) = None THEN rest
                                ELSE rest \o Tile_subtiles(next).val],
             ret |-> Some(next),
             overflows |-> Tile_subtiles_overflows(next)]

----------------------------------------------------------------------------
(* SpecSubTiles: t.all_subtiles_iter() is pulled; call.tile is the tile t  *)
(* that the iterator was made from.                                        *)

\* The number of pulls made on one iterator: three levels and one more.
MaxSubPulls == 85

\* The base tiles: the root, the tile of the tests, the east-most tile of
\* the top row of zoom 31, and the tile that 254 calls of subtiles()[0]
\* reach from the root, whose children have no subtiles.
SubTilesInputs ==
    {MkTile(0, W(0), W(0)), MkTile(1, W(1), W(0)), MkTile(4, W(7), W(5)),
     MkTile(31, W(2147483647), W(0)), MkTile(254, W(0), W(0))}

InitSubTiles ==
    /\ build \in Builds
    /\ \E t \in SubTilesInputs :
           /\ obj = Tile_all_subtiles_iter(t)
           /\ call = [op |-> "all_subtiles_iter", tile |-> t]
    /\ ret = None
    /\ out = <<>>

SubTilesNext ==
    /\ ret.tag # "Panic"
    /\ Len(out) < MaxSubPulls
    /\ LET step == AllSubTilesIterator_next(obj)
           panics == build = "debug" /\ step.overflows
       IN /\ obj' = IF panics THEN obj ELSE step.it
          /\ ret' = IF panics THEN Panic ELSE step.ret
          /\ out' = IF panics THEN out ELSE Append(out, step.ret)
    /\ call' = [op |-> "next", tile |-> call.tile]
    /\ UNCHANGED build

NextSubTiles == SubTilesNext

SpecSubTiles == InitSubTiles /\ [][NextSubTiles]_vars

\* The tile d lies in the subtree below the tile t: it is deeper, and its
\* coordinates halved down to t's zoom are those of t.
IsDescendant(d, t) ==
    /\ d.zoom > t.zoom
    /\ Shr(d.x, d.zoom - t.zoom) = t.x
    /\ Shr(d.y, d.zoom - t.zoom) = t.y

\* How many of the first n results are tiles of the zoom z.
YieldedAtZoom(n, z) ==
    Cardinality({k \in 1..n : IsSome(out[k]) /\ out[k].val.zoom = z})

\* C16: t.all_subtiles_iter() never panics; it yields first the four
\* children of t in subtiles() order and then level by level: every tile it
\* yields lies in the subtree below t, no tile comes twice, the zoom never
\* goes down, and before the first tile of zoom t.zoom + k + 1 all the 4^k
\* tiles of zoom t.zoom + k have come; it returns None only when its queue
\* is empty.
C16_SubtreeLevelOrder ==
    LET t == call.tile
        n == Len(out)
    IN /\ ret.tag # "Panic"
       /\ \A k \in 1..n :
              IF IsSome(out[k])
              THEN /\ IsDescendant(out[k].val, t)
                   /\ k <= 4 => out[k].val = ChildrenOf(t)[k]
                   /\ \A j \in 1..(k - 1) :
                          /\ IsSome(out[j])
                          /\ out[j] # out[k]
                          /\ out[j].val.zoom <= out[k].val.zoom
                   /\ \A z \in (t.zoom + 1)..(out[k].val.zoom - 1) :
                          YieldedAtZoom(k, z) = 4 ^ (z - t.zoom)
              ELSE /\ out[k] = None
                   /\ obj._tiles = <<>>

----------------------------------------------------------------------------
(* SpecContains: a box is built with BBox::new or taken from a tile, and   *)
(* contains_point is called on it with a point.                            *)

Bool(b) == [tag |-> "Bool", val |-> b]

\* The grid lines that the boxes and the points are taken from.
ContainsLatLines == {11, 31, 33}

ContainsLonLines == {1, 33, 63}

\* BBox::new does not order its arguments: the boxes include those with
\* top = bottom, left = right, top < bottom and right < left.  The tile
\* boxes are the one of the tests and one of zoom 26.
ContainsBoxes ==
    {BBox_new(GridLat(t), GridLon(l), GridLat(b), GridLon(r)).val :
         t \in ContainsLatLines, l \in ContainsLonLines,
         b \in ContainsLatLines, r \in ContainsLonLines}
        \cup {Tile_bbox(MkTile(7, W(63), W(42))),
              Tile_bbox(MkTile(26, W(0), W(0)))}

InitContains ==
    /\ build \in Builds
    /\ obj \in ContainsBoxes
    /\ call = [op |-> "BBox::new"]
    /\ ret = None
    /\ out = <<>>

ContainsPoint ==
    /\ call.op = "BBox::new"
    /\ \E lat \in {obj.top, obj.bottom} \cup
                      {GridLat(k) : k \in ContainsLatLines \cup {21}},
          lon \in {obj.left, obj.right} \cup
                      {GridLon(k) : k \in ContainsLonLines \cup {43}} :
           LET point == LatLon_new(lat, lon).val
           IN /\ call' = [op |-> "contains_point", point |-> point]
              /\ ret' = Bool(BBox_contains_point(obj, point))
    /\ UNCHANGED <<build, obj, out>>

NextContains == ContainsPoint

SpecContains == InitContains /\ [][NextContains]_vars

\* The point lies on this edge of the box (ends included).
OnTopEdge(p, b) ==
    p.lat = b.top /\ f32_le(b.left, p.lon) /\ f32_le(p.lon, b.right)

OnBottomEdge(p, b) ==
    p.lat = b.bottom /\ f32_le(b.left, p.lon) /\ f32_le(p.lon, b.right)

OnLeftEdge(p, b) ==
    p.lon = b.left /\ f32_le(b.bottom, p.lat) /\ f32_le(p.lat, b.top)

OnRightEdge(p, b) ==
    p.lon = b.right /\ f32_le(b.bottom, p.lat) /\ f32_le(p.lat, b.top)

\* The half-open test and what it says of the corners and edges of the
\* boxes that satisfy `proper`.
ContainsPointClaim(proper) ==
    call.op = "contains_point" =>
        LET p == call.point
            b == obj
        IN /\ ret.val <=> /\ ~f32_lt(b.top, p.lat)
                          /\ f32_lt(b.bottom, p.lat)
                          /\ ~f32_lt(p.lon, b.left)
                          /\ f32_lt(p.lon, b.right)
           /\ OnBottomEdge(p, b) \/ OnRightEdge(p, b) => ~ret.val
           /\ proper =>
                  /\ p = MkLatLon(b.top, b.left) => ret.val
                  /\ p \in {MkLatLon(b.bottom, b.left),
                            MkLatLon(b.top, b.right),
                            MkLatLon(b.bottom, b.right)} => ~ret.val
                  /\ (OnTopEdge(p, b) \/ OnLeftEdge(p, b))
                         /\ ~OnBottomEdge(p, b) /\ ~OnRightEdge(p, b)
                         => ret.val

\* C17 as stated: contains_point(p) is true exactly when p.lat <= top,
\* p.lat > bottom, p.lon >= left and p.lon < right; every box contains its
\* own north-west corner and the points on its top and left edges, and not
\* its other three corners or a point on its bottom or right edge.
C17_Original == ContainsPointClaim(TRUE)

\* C17, amended: contains_point(p) is true exactly when p.lat <= top,
\* p.lat > bottom, p.lon >= left and p.lon < right; no box contains a point
\* on its bottom or right edge, and a box with bottom < top and left < right
\* contains its own north-west corner and the points on its top and left
\* edges that are not on its bottom or right edge, and not its other three
\* corners.
C17_ContainsPointHalfOpen ==
    ContainsPointClaim(f32_lt(obj.bottom, obj.top)
                           /\ f32_lt(obj.left, obj.right))

\* The box of the tile (7, 63, 42) was asked for its own north-west corner
\* and contains it.
C17_Witness ==
    /\ call.op = "contains_point"
    /\ obj = Tile_bbox(MkTile(7, W(63), W(42)))
    /\ call.point = Tile_nw_corner(MkTile(7, W(63), W(42))).val
    /\ ret = Bool(TRUE)

----------------------------------------------------------------------------
(* SpecOverlaps: overlaps_bbox is called on a box with another box; the    *)
(* boxes are those of tiles and boxes built with BBox::new.                *)

\* The tiles whose boxes are compared: every tile of the zooms 1 and 2, the
\* tiles of the tests with their parent, and the north-west tiles of the
\* zooms 25 and 26.
OverlapTiles ==
    {t \in {MkTile(z, W(x), W(y)) : z \in 1..2, x \in 0..3, y \in 0..3} :
         IsSome(Tile_new(t.zoom, t.x, t.y))}
        \cup {MkTile(7, W(63), W(42)), MkTile(7, W(63), W(43)),
              MkTile(6, W(31), W(21)),
              MkTile(25, W(0), W(0)), MkTile(26, W(0), W(0))}

OverlapBoxes ==
    {Tile_bbox(t) : t \in OverlapTiles}
        \cup {BBox_new(GridLat(t), GridLon(l), GridLat(b), GridLon(r)).val :
                  t \in {11, 31}, l \in {1, 33}, b \in {31, 33},
                  r \in {33, 63}}

InitOverlaps ==
    /\ build \in Builds
    /\ obj \in OverlapBoxes
    /\ call = [op |-> "BBox::new"]
    /\ ret = None
    /\ out = <<>>

OverlapsBBox ==
    /\ call.op = "BBox::new"
    /\ \E other \in OverlapBoxes :
           /\ call' = [op |-> "overlaps_bbox", other |-> other]
           /\ ret' = Bool(BBox_overlaps_bbox(obj, other))
    /\ UNCHANGED <<build, obj, out>>

NextOverlaps == OverlapsBBox

SpecOverlaps == InitOverlaps /\ [][NextOverlaps]_vars

\* The tile of the same zoom one column to the east or one row to the
\* south of t.
IsEastOrSouthOf(u, t) ==
    /\ u.zoom = t.zoom
    /\ \/ u.x = Add(t.x, W(1)) /\ u.y = t.y
       \/ u.x = t.x /\ u.y = Add(t.y, W(1))

\* C18: a.overlaps_bbox(b) is true exactly when a.left < b.right,
\* a.right > b.left, a.top > b.bottom and a.bottom < b.top; b overlaps a
\* exactly when a overlaps b; the box of a tile overlaps the box of its
\* parent (either way round); and two boxes with a shared edge line, such
\* as the boxes of two adjacent tiles of one zoom, do not overlap.
C18_OverlapsBBox ==
    call.op = "overlaps_bbox" =>
        LET a == obj
            b == call.other
        IN /\ ret.val <=> /\ f32_lt(a.left, b.right)
                          /\ f32_lt(b.left, a.right)
                          /\ f32_lt(b.bottom, a.top)
                          /\ f32_lt(a.bottom, b.top)
           /\ ret.val <=> BBox_overlaps_bbox(b, a)
           /\ \A t \in OverlapTiles :
                  LET parent == MkTile(t.zoom - 1, Shr(t.x, 1), Shr(t.y, 1))
                  IN \/ a = Tile_bbox(t) /\ b = Tile_bbox(parent)
                     \/ b = Tile_bbox(t) /\ a = Tile_bbox(parent)
                     => ret.val
           /\ \/ a.right = b.left \/ b.right = a.left
              \/ a.bottom = b.top \/ b.bottom = a.top
              => ~ret.val
           /\ \A t \in OverlapTiles :
                  \A u \in {v \in OverlapTiles : IsEastOrSouthOf(v, t)} :
                      {a, b} = {Tile_bbox(t), Tile_bbox(u)} => ~ret.val

----------------------------------------------------------------------------
(* Path encoders (lib.rs:1357-1424).  A String of decimal digits is the    *)
(* sequence of its digits, so "003" is <<0, 0, 3>> and "17" is <<1, 7>>.   *)

RECURSIVE Digits(_)
\* format!("{}", n): the decimal digits of n, most significant first.
Digits(n) == IF n < 10 THEN <<n>> ELSE Append(Digits(n \div 10), n % 10)

\* The mutant of format_zero_padded that gives exactly `width` digits.
format_fixed_width(width, w) ==
    LET d == Digits(IntOf(w))
    IN IF Len(d) > width THEN SubSeq(d, Len(d) - width + 1, Len(d))
       ELSE [k \in 1..(width - Len(d)) |-> 0] \o d

\* The mutant of format_zero_padded that pads nothing.
format_unpadded(width, w) == Digits(IntOf(w))

\* format!("{:03}", w) and format!("{:04}", w): the digits of w, with
\* zeros in front up to `width` digits; longer numbers are left whole.
format_zero_padded(width, w) ==
    LET d == Digits(IntOf(w))
    IN [k \in 1..(width - Len(d)) |-> 0] \o d

xy_to_tc(x, y) ==
    <<format_zero_padded(3, Div(x, W(1000000))),
      format_zero_padded(3, Rem(Div(x, W(1000)), W(1000))),
      format_zero_padded(3, Rem(x, W(1000))),
      format_zero_padded(3, Div(y, W(1000000))),
      format_zero_padded(3, Rem(Div(y, W(1000)), W(1000))),
      format_zero_padded(3, Rem(y, W(1000)))>>

xy_to_mp(x, y) ==
    <<format_zero_padded(4, Div(x, W(10000))),
      format_zero_padded(4, Rem(x, W(10000))),
      format_zero_padded(4, Div(y, W(10000))),
      format_zero_padded(4, Rem(y, W(10000)))>>

xy_to_ts(x, y) ==
    <<format_zero_padded(3, Div(x, W(1000))),
      format_zero_padded(3, Rem(x, W(1000))),
      format_zero_padded(3, Div(y, W(1000))),
      format_zero_padded(3, Rem(y, W(1000)))>>

\* ((x & 0x0f) << 4) | (y & 0x0f), as u8.
nibble_pair(x, y) ==
    Wrap(Shl(x \cap (0..3), 4) \cup (y \cap (0..3)), U8Bits)

\* The mutant of xy_to_mt that leaves out the last x >>= 4; y >>= 4.
xy_to_mt_four_shifts(x, y) ==
    <<Digits(IntOf(nibble_pair(Shr(x, 12), Shr(y, 12)))),
      Digits(IntOf(nibble_pair(Shr(x, 12), Shr(y, 12)))),
      Digits(IntOf(nibble_pair(Shr(x, 8), Shr(y, 8)))),
      Digits(IntOf(nibble_pair(Shr(x, 4), Shr(y, 4)))),
      Digits(IntOf(nibble_pair(x, y)))>>

xy_to_mt(x, y) ==
    LET e == nibble_pair(x, y)
        x1 == Shr(x, 4)
        y1 == Shr(y, 4)
        d == nibble_pair(x1, y1)
        x2 == Shr(x1, 4)
        y2 == Shr(y1, 4)
        c == nibble_pair(x2, y2)
        x3 == Shr(x2, 4)
        y3 == Shr(y2, 4)
        b == nibble_pair(x3, y3)
        x4 == Shr(x3, 4)
        y4 == Shr(y3, 4)
        a == nibble_pair(x4, y4)
    IN <<Digits(IntOf(a)), Digits(IntOf(b)), Digits(IntOf(c)),
         Digits(IntOf(d)), Digits(IntOf(e))>>

----------------------------------------------------------------------------
(* SpecPaths: the path encoders are called on a coordinate (x, y) of a     *)
(* tile; obj is the coordinate.                                            *)

Segments(s) == [tag |-> "Segments", val |-> s]

\* The x and y tried: those of the tests, the values around the group
\* limits 10^3, 10^4, 10^6 and the nibble limits 2^16 and 2^20, 2^30 and
\* the largest u32.
PathCoords ==
    {W(n) : n \in {0, 1, 3, 4, 656, 1582, 9999, 10000, 999999, 1000000,
                   65536, 1048575, 1048576, 1073741824}}
        \cup {0..(U32Bits - 1)}

InitPaths ==
    /\ build \in Builds
    /\ obj \in [x : PathCoords, y : PathCoords]
    /\ call = [op |-> "Tile"]
    /\ ret = None
    /\ out = <<>>

XyToTc ==
    /\ call.op = "Tile"
    /\ call' = [op |-> "xy_to_tc"]
    /\ ret' = Segments(xy_to_tc(obj.x, obj.y))
    /\ UNCHANGED <<build, obj, out>>

XyToMp ==
    /\ call.op = "Tile"
    /\ call' = [op |-> "xy_to_mp"]
    /\ ret' = Segments(xy_to_mp(obj.x, obj.y))
    /\ UNCHANGED <<build, obj, out>>

XyToTs ==
    /\ call.op = "Tile"
    /\ call' = [op |-> "xy_to_ts"]
    /\ ret' = Segments(xy_to_ts(obj.x, obj.y))
    /\ UNCHANGED <<build, obj, out>>

XyToMt ==
    /\ call.op = "Tile"
    /\ call' = [op |-> "xy_to_mt"]
    /\ ret' = Segments(xy_to_mt(obj.x, obj.y))
    /\ UNCHANGED <<build, obj, out>>

NextPaths == XyToTc \/ XyToMp \/ XyToTs \/ XyToMt

SpecPaths == InitPaths /\ [][NextPaths]_vars

RECURSIVE ParseDec(_)
\* The number that a sequence of decimal digits writes.
ParseDec(s) ==
    IF s = <<>> THEN 0
    ELSE 10 * ParseDec(SubSeq(s, 1, Len(s) - 1)) + s[Len(s)]

IsDigits(s) == Len(s) >= 1 /\ \A k \in 1..Len(s) : s[k] \in 0..9

\* The word high * unit + low.
Joined(high, unit, low) == Add(Mul(W(high), W(unit)), W(low))

\* The segments s[from], s[from + 1], s[from + 2] are the three groups of
\* the word w: w / 10^6, (w / 10^3) mod 10^3 and w mod 10^3.
ThreeGroups(s, from, w) ==
    LET g1 == ParseDec(s[from])
        g2 == ParseDec(s[from + 1])
        g3 == ParseDec(s[from + 2])
    IN /\ g2 < 1000 /\ g3 < 1000
       /\ Add(Mul(W(g1), W(1000000)), Joined(g2, 1000, g3)) = w

\* The segments s[from], s[from + 1] are the two groups of the word w:
\* w / unit and w mod unit.
TwoGroups(s, from, unit, w) ==
    LET g1 == ParseDec(s[from])
        g2 == ParseDec(s[from + 1])
    IN g2 < unit /\ Joined(g1, unit, g2) = w

\* The segments that each decimal encoder gives for every coordinate tried.
SegmentsOf ==
    LET coords == [x : PathCoords, y : PathCoords]
    IN [tc |-> {[of |-> o, segments |-> xy_to_tc(o.x, o.y)] : o \in coords},
        mp |-> {[of |-> o, segments |-> xy_to_mp(o.x, o.y)] : o \in coords},
        ts |-> {[of |-> o, segments |-> xy_to_ts(o.x, o.y)] : o \in coords}]

\* C19: the segments of the decimal encoders are digit strings whose values
\* are tc = [x/10^6, (x/10^3) mod 10^3, x mod 10^3, then the same of y],
\* mp = [x/10^4, x mod 10^4, then the same of y], ts = [x/10^3, x mod 10^3,
\* then the same of y]: the coordinate is the one that the groups put
\* together give, and no other coordinate has the same segments.
C19_DecimalGroups ==
    LET s == ret.val
    IN /\ call.op \in {"xy_to_tc", "xy_to_mp", "xy_to_ts"} =>
              \A k \in 1..Len(s) : IsDigits(s[k])
       /\ call.op = "xy_to_tc" =>
              /\ Len(s) = 6
              /\ ThreeGroups(s, 1, obj.x) /\ ThreeGroups(s, 4, obj.y)
              /\ \A e \in SegmentsOf.tc : e.segments = s => e.of = obj
       /\ call.op = "xy_to_mp" =>
              /\ Len(s) = 4
              /\ TwoGroups(s, 1, 10000, obj.x)
              /\ TwoGroups(s, 3, 10000, obj.y)
              /\ \A e \in SegmentsOf.mp : e.segments = s => e.of = obj
       /\ call.op = "xy_to_ts" =>
              /\ Len(s) = 4
              /\ TwoGroups(s, 1, 1000, obj.x)
              /\ TwoGroups(s, 3, 1000, obj.y)
              /\ \A e \in SegmentsOf.ts : e.segments = s => e.of = obj

\* xy_to_tc was called on the largest coordinate: the first group of x and
\* of y has four digits.
C19_Witness ==
    /\ call.op = "xy_to_tc"
    /\ obj = [x |-> 0..(U32Bits - 1), y |-> 0..(U32Bits - 1)]
    /\ ret = Segments(<< <<4, 2, 9, 4>>, <<9, 6, 7>>, <<2, 9, 5>>,
                         <<4, 2, 9, 4>>, <<9, 6, 7>>, <<2, 9, 5>> >>)

\* The coordinates below 2^20, whose bits the five bytes hold.
MtCoords == {w \in PathCoords : w \subseteq 0..19}

\* C20: xy_to_mt(x, y) gives five segments [a, b, c, d, e], each the
\* decimal rendering of a byte 16 * (a nibble of x) + (a nibble of y) in
\* 0..255: e of the bits 0..3, d of 4..7, c of 8..11, b of 12..15 and a of
\* 16..19; (0, 0) gives [0, 0, 0, 0, 0], (1, 1) gives [0, 0, 0, 0, 17], and
\* no other coordinate below 2^20 has the segments of one below 2^20.
C20_NibblePath ==
    call.op = "xy_to_mt" =>
        LET s == ret.val
            Nibble(w, k) == IntOf(Shr(w, 4 * k) \cap (0..3))
        IN /\ Len(s) = 5
           /\ \A k \in 0..4 :
                  /\ IsDigits(s[5 - k])
                  /\ s[5 - k] = Digits(ParseDec(s[5 - k]))
                  /\ ParseDec(s[5 - k]) \in 0..255
                  /\ ParseDec(s[5 - k])
                         = 16 * Nibble(obj.x, k) + Nibble(obj.y, k)
           /\ obj = [x |-> W(0), y |-> W(0)] =>
                  s = << <<0>>, <<0>>, <<0>>, <<0>>, <<0>> >>
           /\ obj = [x |-> W(1), y |-> W(1)] =>
                  s = << <<0>>, <<0>>, <<0>>, <<0>>, <<1, 7>> >>
           /\ obj \in [x : MtCoords, y : MtCoords] =>
                  \A o \in [x : MtCoords, y : MtCoords] :
                      xy_to_mt(o.x, o.y) = s => o = obj

\* xy_to_mt was called on (1, 1) and gave the path of the tests.
C20_Witness ==
    /\ call.op = "xy_to_mt"
    /\ obj = [x |-> W(1), y |-> W(1)]
    /\ ret = Segments(<< <<0>>, <<0>>, <<0>>, <<0>>, <<1, 7>> >>)

----------------------------------------------------------------------------
(* The width of the segments of the decimal encoders.                      *)

\* The x and y of the valid tiles of zoom 31: the coordinates below 2^31.
IsTileCoord(o) == Fits(o.x, 31) /\ Fits(o.y, 31)

\* The digits of a segment of the encoder that was called.
SegmentWidth == IF call.op = "xy_to_mp" THEN 4 ELSE 3

\* C21 as stated: for every valid tile each of the six tc segments and each
\* of the four ts segments is exactly 3 digits, and each of the four mp
\* segments exactly 4 digits.
C21_Original ==
    call.op \in {"xy_to_tc", "xy_to_mp", "xy_to_ts"} /\ IsTileCoord(obj) =>
        \A k \in 1..Len(ret.val) : Len(ret.val[k]) = SegmentWidth

\* C21, amended: every tc and ts segment has at least 3 digits and every
\* mp segment at least 4; the segments of the lower groups have exactly
\* that many, and the leading segment of x (of y) has exactly that many
\* when x (y) is below 10^9 for tc, 10^8 for mp and 10^6 for ts, and more
\* digits from there on.
C21_SegmentWidths ==
    call.op \in {"xy_to_tc", "xy_to_mp", "xy_to_ts"} =>
        LET s == ret.val
            half == Len(s) \div 2
            limit == CASE call.op = "xy_to_tc" -> W(1000000000)
                       [] call.op = "xy_to_mp" -> W(100000000)
                       [] call.op = "xy_to_ts" -> W(1000000)
        IN /\ \A k \in 1..Len(s) :
                  /\ Len(s[k]) >= SegmentWidth
                  /\ k \notin {1, half + 1} => Len(s[k]) = SegmentWidth
           /\ Len(s[1]) = SegmentWidth <=> Lt(obj.x, limit)
           /\ Len(s[half + 1]) = SegmentWidth <=> Lt(obj.y, limit)

\* xy_to_ts was called on the coordinate of the tests and gave four
\* segments of three digits.
C21_Witness ==
    /\ call.op = "xy_to_ts"
    /\ obj = [x |-> W(656), y |-> W(1582)]
    /\ ret = Segments(<< <<0, 0, 0>>, <<6, 5, 6>>, <<0, 0, 1>>, <<5, 8, 2>> >>)

----------------------------------------------------------------------------
(* SpecParse: a text is parsed as a tile and as a metatile; obj is the     *)
(* text.                                                                   *)

\* The text of a sequence of digits.
Text(digits) == [k \in 1..Len(digits) |-> DigitChars[digits[k] + 1]]

\* Zooms: one and two digits, none, three; the zooms around 32 and 99.
ZoomTexts ==
    {Text(d) : d \in {<<0>>, <<4>>, <<0, 5>>, <<3, 1>>, <<3, 2>>, <<9, 9>>,
                      <<>>, <<1, 0, 0>>}}

\* Coordinates: small ones, the numbers around 2^32, the largest of ten
\* digits, one of eleven digits and one that is no number.
CoordTexts ==
    {Text(d) : d \in {<<0>>, <<1>>, <<1, 0>>, <<1, 5>>,
                      <<4, 2, 9, 4, 9, 6, 7, 2, 9, 5>>,
                      <<4, 2, 9, 4, 9, 6, 7, 2, 9, 6>>,
                      <<9, 9, 9, 9, 9, 9, 9, 9, 9, 9>>,
                      <<0, 0, 0, 0, 0, 0, 0, 0, 0, 0, 1>>}}
        \cup {<<"x">>}

\* Scales: powers of two, 0, one that is no power of two, the numbers
\* around 2^8, and none.
ScaleTexts ==
    {Text(d) : d \in {<<8>>, <<1>>, <<0>>, <<3>>, <<1, 2, 8>>, <<2, 5, 5>>,
                      <<2, 5, 6>>, <<>>}}

TileTexts ==
    {z \o <<"/">> \o x \o <<"/">> \o y :
         z \in ZoomTexts, x \in CoordTexts, y \in CoordTexts}
        \cup {<<"1", "/", "0">>, <<"1", "/", "0", "/", "0", "/", "0">>,
              <<"1", "/", "0", "/", "0", "\n">>, <<>>}

MetatileTexts ==
    {s \o <<" ">> \o z \o <<"/">> \o x \o <<"/">> \o x :
         s \in ScaleTexts, z \in ZoomTexts, x \in CoordTexts}
        \cup {<<"8", " ", "3", "/", "0", "/", "0">>,
              <<"8", " ", "0", "/", "1", "0", "/", "1", "0">>,
              <<"8", " ", " ", "4", "/", "1", "/", "1">>,
              <<"8", "/", "4", "/", "1", "/", "1">>}

InitParse ==
    /\ build \in Builds
    /\ obj \in TileTexts \cup MetatileTexts
    /\ call = [op |-> "text"]
    /\ ret = None
    /\ out = <<>>

TileFromStr ==
    /\ call.op = "text"
    /\ call' = [op |-> "Tile::from_str"]
    /\ ret' = Outcome(Tile_from_str_overflows(obj), Tile_from_str(obj))
    /\ UNCHANGED <<build, obj, out>>

MetatileFromStr ==
    /\ call.op = "text"
    /\ call' = [op |-> "Metatile::from_str"]
    /\ ret' = Outcome(Metatile_from_str_overflows(obj),
                      Metatile_from_str(obj))
    /\ UNCHANGED <<build, obj, out>>

NextParse == TileFromStr \/ MetatileFromStr

SpecParse == InitParse /\ [][NextParse]_vars

\* The text s from place `from` on is <zoom>/<x>/<y> with the slashes at
\* the places i and j.
IsTileTextAt(s, from, i, j) ==
    /\ from <= i /\ i < j /\ j <= Len(s)
    /\ s[i] = "/" /\ s[j] = "/"
    /\ \A k \in from..Len(s) : k \notin {i, j} => IsDigitChar(s[k])
    /\ i - from \in 1..2
    /\ j - i - 1 \in 1..10
    /\ Len(s) - j \in 1..10

\* C22: parsing a tile from text always ends in a value: the regex error
\* for a text that is not <1-2 digit zoom>/<1-10 digit x>/<1-10 digit y>,
\* and for a text that is, Ok of the tile (zoom, x, y) when x and y are
\* below 2^zoom and else the error "Invalid X or Y for this zoom".
C22_TileFromStr ==
    call.op = "Tile::from_str" =>
        LET s == obj
            n == Len(s)
        IN /\ ret.tag \in {"Ok", "Err"}
           /\ (~\E i, j \in 1..n : IsTileTextAt(s, 1, i, j))
                  => ret = Err("Tile Z/X/Y regex didn't match")
           /\ \A i, j \in 1..n :
                  IsTileTextAt(s, 1, i, j) =>
                      LET zoom == IntOf(DecimalValue(SubSeq(s, 1, i - 1)))
                          x == DecimalValue(SubSeq(s, i + 1, j - 1))
                          y == DecimalValue(SubSeq(s, j + 1, n))
                      IN ret = IF Lt(x, Pow2(zoom)) /\ Lt(y, Pow2(zoom))
                               THEN Ok(MkTile(zoom, x, y))
                               ELSE Err("Invalid X or Y for this zoom")

\* C23: parsing a metatile from "<scale> <zoom>/<x>/<y>" always gives Ok
\* or the error value: Ok(m) exactly when the text matches the grammar and
\* the numbers are a scale, a zoom, an x and a y for which Metatile::new
\* returns Some(m), so that "8 4/1/1" gives the metatile (8, 4, 0, 0).
C23_MetatileFromStr ==
    call.op = "Metatile::from_str" =>
        LET s == obj
            n == Len(s)
            IsAt(p, i, j) ==
                /\ p \in 2..n /\ s[p] = " "
                /\ \A k \in 1..(p - 1) : IsDigitChar(s[k])
                /\ IsTileTextAt(s, p + 1, i, j)
            Made(p, i, j) ==
                LET scale == DecimalValue(SubSeq(s, 1, p - 1))
                    zoom == IntOf(DecimalValue(SubSeq(s, p + 1, i - 1)))
                    x == DecimalValue(SubSeq(s, i + 1, j - 1))
                    y == DecimalValue(SubSeq(s, j + 1, n))
                IN IF Fits(scale, U8Bits) /\ Fits(x, U32Bits)
                          /\ Fits(y, U32Bits)
                          /\ ~Metatile_new_overflows(IntOf(scale), zoom, x, y)
                   THEN Metatile_new(IntOf(scale), zoom, x, y)
                   ELSE None
        IN /\ ret.tag \in {"Ok", "Err"}
           /\ ret.tag = "Err" => ret = Err(<<>>)
           /\ ret.tag = "Ok" <=>
                  \E p, i, j \in 1..n : IsAt(p, i, j) /\ IsSome(Made(p, i, j))
           /\ \A p, i, j \in 1..n :
                  IsAt(p, i, j) /\ IsSome(Made(p, i, j))
                      => ret = Ok(Made(p, i, j).val)
           /\ s = <<"8", " ", "4", "/", "1", "/", "1">>
                  => ret = Ok(MkMetatile(8, 4, W(0), W(0)))

----------------------------------------------------------------------------
(* SpecReplay: an iterator made by new_from_filelist is pulled.            *)

\* The longest file, in lines.
MaxFileLines == 3

\* The pulls made on one iterator.
MaxReplayPulls == 5

\* The lines of the files: metatiles, one followed by a blank, a line that
\* is no metatile, a scale that is no power of two, and an empty line.
LineInputs ==
    {<<"8", " ", "0", "/", "0", "/", "0", "\n">>,
     <<"8", " ", "4", "/", "1", "/", "1", "\n">>,
     <<"2", " ", "1", "/", "1", "/", "0", " ", "\n">>,
     <<"x", "\n">>,
     <<"3", " ", "0", "/", "0", "/", "0", "\n">>,
     <<"\n">>}

FileInputs == UNION {[1..n -> LineInputs] : n \in 0..MaxFileLines}

InitReplay ==
    /\ build \in Builds
    /\ \E lines \in FileInputs :
           /\ obj = MetatilesIterator_new_from_filelist(lines)
           /\ call = [op |-> "new_from_filelist", lines |-> lines]
    /\ ret = None
    /\ out = <<>>

ReplayNext ==
    /\ ret.tag # "Panic"
    /\ Len(out) < MaxReplayPulls
    /\ LET step == MetatilesIterator_next(obj)
           panics == step.ret.tag = "Panic"
                         \/ (build = "debug" /\ step.overflows)
       IN /\ obj' = IF panics THEN obj ELSE step.it
          /\ ret' = IF panics THEN Panic ELSE step.ret
          /\ out' = IF panics THEN out ELSE Append(out, step.ret)
    /\ call' = [op |-> "next", lines |-> call.lines]
    /\ UNCHANGED build

NextReplay == ReplayNext

SpecReplay == InitReplay /\ [][NextReplay]_vars

\* The metatile that a line of the file writes, or None.
LineMetatile(line) ==
    CASE line = <<"8", " ", "0", "/", "0", "/", "0", "\n">>
             -> Some(MkMetatile(8, 0, W(0), W(0)))
      [] line = <<"8", " ", "4", "/", "1", "/", "1", "\n">>
             -> Some(MkMetatile(8, 4, W(0), W(0)))
      [] line = <<"2", " ", "1", "/", "1", "/", "0", " ", "\n">>
             -> Some(MkMetatile(2, 1, W(0), W(0)))
      [] OTHER -> None

\* C24: in replay mode no pull panics; the k-th pull returns the metatile
\* of the k-th line as long as the lines 1..k all parse; the first pull
\* that meets a line that does not parse, or the end of the file, returns
\* None, and after a None every later pull returns None.
C24_ReplayEndsAtNone ==
    /\ ret.tag # "Panic"
    /\ \A k \in 1..Len(out) :
           LET lines == call.lines
               parses(j) == j <= Len(lines) /\ IsSome(LineMetatile(lines[j]))
           IN /\ (\A j \in 1..k : parses(j))
                  => out[k] = LineMetatile(lines[k])
              /\ (\A j \in 1..(k - 1) : parses(j)) /\ ~parses(k)
                  => out[k] = None
              /\ (\E j \in 1..(k - 1) : out[j] = None) => out[k] = None

----------------------------------------------------------------------------
(* SpecPair: two iterators made over the same region are pulled in any     *)
(* order.  obj is the pair of iterators, ret the pair of their last        *)
(* results and out the pair of their result sequences; call.made is the    *)
(* iterator that both were made as.                                        *)

\* The pulls made on each of the two iterators.
MaxPairPulls == 6

\* next() of an iterator of a kind: the advanced iterator and the result,
\* or a panic.
pair_step(kind, it) ==
    LET result(step, panics) ==
            [it |-> IF panics THEN it ELSE step.it,
             ret |-> IF panics THEN Panic ELSE step.ret]
    IN CASE kind = "all_to_zoom" ->
                result(AllTilesToZoomIterator_next(it),
                       build = "debug"
                           /\ AllTilesToZoomIterator_next_overflows(it))
         [] kind = "tiles" ->
                result(BBoxTilesIterator_next(it),
                       BBoxTilesIterator_next(it).panics
                           \/ (build = "debug"
                                   /\ BBoxTilesIterator_next(it).overflows))
         [] kind = "metatiles" ->
                result(MetatilesIterator_next(it),
                       build = "debug" /\ MetatilesIterator_next(it).overflows)

\* The mutant of pull in which the two iterators share one cursor.
pull_shared_cursor(its, i, it) == <<it, it>>

\* next(&mut self) changes the iterator it is called on.
pull(its, i, it) == [its EXCEPT ![i] = it]

\* The iterators made: Tile::all_to_zoom(m), bbox.tiles() and
\* MetatilesIterator::new_for_bbox_zoom(scale, bbox, 1, 2).
PairInputs ==
    {[kind |-> "all_to_zoom", made |-> Tile_all_to_zoom(m)] : m \in 0..2}
        \cup {[kind |-> "tiles", made |-> BBox_tiles(b.val)] :
                  b \in {GridBBox(1, 1, 31, 63), GridBBox(21, 43, 23, 45)}}
        \cup {[kind |-> "metatiles",
               made |-> MetatilesIterator_new_for_bbox_zoom(s, b, 1, 2)] :
                  s \in {1, 2},
                  b \in {GridBBox(1, 1, 31, 63), GridBBox(21, 43, 23, 45)}}

InitPair ==
    /\ build \in Builds
    /\ \E p \in PairInputs :
           /\ obj = <<p.made, p.made>>
           /\ call = [op |-> "made", kind |-> p.kind, made |-> p.made]
    /\ ret = <<None, None>>
    /\ out = <<<<>>, <<>>>>

PairNext(i) ==
    /\ ret[i].tag # "Panic"
    /\ Len(out[i]) < MaxPairPulls
    /\ \E step \in {pair_step(call.kind, obj[i])} :
           /\ obj' = pull(obj, i, step.it)
           /\ ret' = [ret EXCEPT ![i] = step.ret]
           /\ out' = [out EXCEPT ![i] = IF step.ret = Panic THEN @
                                        ELSE Append(@, step.ret)]
    /\ call' = [call EXCEPT !.op = "next"]
    /\ UNCHANGED build

NextPair == \E i \in 1..2 : PairNext(i)

SpecPair == InitPair /\ [][NextPair]_vars

RECURSIVE Alone(_, _, _, _)
\* An iterator pulled alone n times: its cursor and the results, up to a
\* panic.
Alone(kind, it, n, results) ==
    IF n = 0 THEN [it |-> it, out |-> results]
    ELSE LET run(step) ==
                 IF step.ret = Panic THEN [it |-> it, out |-> results]
                 ELSE Alone(kind, step.it, n - 1, Append(results, step.ret))
         IN run(pair_step(kind, it))

----------------------------------------------------------------------------
(* The arithmetic of Tile::all_to_zoom (lib.rs:418-487), under SpecToZoom. *)

\* C26: at every cursor reached by pulling Tile::all_to_zoom(max_zoom), for
\* every max_zoom, next() and size_hint() complete without an overflow, a
\* wrap or a panic in their u8, u32 and usize arithmetic, and size_hint()
\* returns an exact (n, Some(n)) or (usize::MAX, None).
C26_NoOverflow ==
    /\ ret.tag # "Panic"
    /\ ~AllTilesToZoomIterator_next_overflows(obj)
    /\ ~AllTilesToZoomIterator_size_hint_overflows(obj)
    /\ call.op = "size_hint" =>
           /\ ret.tag = "Hint"
           /\ ret.val = TooLarge \/ ret.val.hi = Some(ret.val.lo)

----------------------------------------------------------------------------
(* Sizes and tiles of a box at one zoom (lib.rs:1029-1056, 1099-1102,      *)
(* 1212-1223).                                                             *)

\* (bottom_right - top_left) as usize + 1, the u32 difference wrapping.
span(from, to) == Add(SubWrap(to, from, U32Bits), W(1))

size_bbox_zoom(bbox, zoom) ==
    LET size(top_left_tile, bottom_right_tile) ==
            checked_mul(span(top_left_tile[1], bottom_right_tile[1]),
                        span(top_left_tile[2], bottom_right_tile[2]))
    IN size(lat_lon_to_tile(bbox.top, bbox.left, zoom),
            lat_lon_to_tile(bbox.bottom, bbox.right, zoom))

\* The u32 subtractions of size_bbox_zoom overflow.
size_bbox_zoom_overflows(bbox, zoom) ==
    LET overflows(top_left_tile, bottom_right_tile) ==
            \/ Lt(bottom_right_tile[1], top_left_tile[1])
            \/ Lt(bottom_right_tile[2], top_left_tile[2])
    IN overflows(lat_lon_to_tile(bbox.top, bbox.left, zoom),
                 lat_lon_to_tile(bbox.bottom, bbox.right, zoom))

size_bbox_zoom_metatiles(bbox, zoom, metatile_scale) ==
    LET floor(v) == Wrap(Mul(Div(v, W(metatile_scale)), W(metatile_scale)),
                         U32Bits)
        cells(from, to) ==
            Add(Div(SubWrap(floor(to), floor(from), U32Bits),
                    W(metatile_scale)),
                W(1))
        size(top_left_tile, bottom_right_tile) ==
            checked_mul(cells(top_left_tile[1], bottom_right_tile[1]),
                        cells(top_left_tile[2], bottom_right_tile[2]))
    IN size(lat_lon_to_tile(bbox.top, bbox.left, zoom),
            lat_lon_to_tile(bbox.bottom, bbox.right, zoom))

size_bbox_zoom_metatiles_overflows(bbox, zoom, metatile_scale) ==
    LET floor(v) == Div(v, W(metatile_scale))
        overflows(top_left_tile, bottom_right_tile) ==
            \/ Lt(floor(bottom_right_tile[1]), floor(top_left_tile[1]))
            \/ Lt(floor(bottom_right_tile[2]), floor(top_left_tile[2]))
    IN overflows(lat_lon_to_tile(bbox.top, bbox.left, zoom),
                 lat_lon_to_tile(bbox.bottom, bbox.right, zoom))

\* unwrap(): the value of a Some, a panic on None.
unwrap(o) == IF IsSome(o) THEN o.val ELSE Panic

LatLon_tile(point, zoom) ==
    LET tile(xy) == unwrap(Tile_new(zoom, xy[1], xy[2]))
    IN tile(lat_lon_to_tile(point.lat, point.lon, zoom))

\* The tiles that bbox.tiles_for_zoom(zoom) yields when it is drained, in
\* its order (x, then y), or a panic: Tile::new(zoom, x, y).unwrap().
BBox_tiles_for_zoom(bbox, zoom) ==
    LET drained(x1, y1, x2, y2) ==
            LET height == IF y2 < y1 THEN 0 ELSE y2 - y1 + 1
                width == IF x2 < x1 THEN 0 ELSE x2 - x1 + 1
                tiles == [k \in 1..(width * height) |->
                             unwrap(Tile_new(zoom,
                                             W(x1 + ((k - 1) \div height)),
                                             W(y1 + ((k - 1) % height))))]
            IN IF \E k \in 1..(width * height) : tiles[k] = Panic
               THEN Panic
               ELSE [tag |-> "Tiles", val |-> tiles]
        corners(top_left_tile, bottom_right_tile) ==
            drained(IntOf(top_left_tile[1]), IntOf(top_left_tile[2]),
                    IntOf(bottom_right_tile[1]), IntOf(bottom_right_tile[2]))
    IN corners(lat_lon_to_tile(bbox.top, bbox.left, zoom),
               lat_lon_to_tile(bbox.bottom, bbox.right, zoom))

----------------------------------------------------------------------------
(* SpecSize: a box accepted by BBox::new is asked for its size and its     *)
(* tiles at a zoom, and its corners for their tiles.  obj is the box and   *)
(* the zoom.                                                               *)

MaxSizeZoom == 3

\* The boxes of BBoxInputs and: a box with its left east of its right, one
\* with its top south of its bottom, one that is a point, one whose right
\* is the antimeridian (180 degrees), one from the north pole down.
SizeBBoxInputs ==
    (BBoxInputs \ {None})
        \cup {GridBBox(31, 33, 33, 31), GridBBox(33, 1, 31, 31),
              GridBBox(21, 43, 21, 43), GridBBox(1, 1, 31, 64),
              BBox_new(Lat90, GridLon(1), GridLat(31), GridLon(31))}

InitSize ==
    /\ build \in Builds
    /\ \E bbox \in SizeBBoxInputs, zoom \in 0..MaxSizeZoom :
           obj = [bbox |-> bbox.val, zoom |-> zoom]
    /\ call = [op |-> "BBox::new"]
    /\ ret = None
    /\ out = <<>>

SizeBBoxZoom ==
    /\ call.op = "BBox::new"
    /\ call' = [op |-> "size_bbox_zoom"]
    /\ ret' = Outcome(size_bbox_zoom_overflows(obj.bbox, obj.zoom),
                      size_bbox_zoom(obj.bbox, obj.zoom))
    /\ UNCHANGED <<build, obj, out>>

SizeBBoxZoomMetatiles ==
    /\ call.op = "BBox::new"
    /\ \E scale \in MetaBBoxScales :
           /\ call' = [op |-> "size_bbox_zoom_metatiles", scale |-> scale]
           /\ ret' = Outcome(size_bbox_zoom_metatiles_overflows(
                                 obj.bbox, obj.zoom, scale),
                             size_bbox_zoom_metatiles(obj.bbox, obj.zoom,
                                                      scale))
    /\ UNCHANGED <<build, obj, out>>

TilesForZoom ==
    /\ call.op = "BBox::new"
    /\ call' = [op |-> "tiles_for_zoom"]
    /\ ret' = BBox_tiles_for_zoom(obj.bbox, obj.zoom)
    /\ UNCHANGED <<build, obj, out>>

LatLonTile ==
    /\ call.op = "BBox::new"
    /\ \E point \in {MkLatLon(obj.bbox.top, obj.bbox.left),
                     MkLatLon(obj.bbox.bottom, obj.bbox.right)} :
           /\ LatLon_new(point.lat, point.lon) = Some(point)
           /\ call' = [op |-> "LatLon::tile", point |-> point]
           /\ ret' = LatLon_tile(point, obj.zoom)
    /\ UNCHANGED <<build, obj, out>>

NextSize ==
    SizeBBoxZoom \/ SizeBBoxZoomMetatiles \/ TilesForZoom \/ LatLonTile

SpecSize == InitSize /\ [][NextSize]_vars

\* C27: size_bbox_zoom(bbox, zoom) never wraps or fails; it returns
\* Some((x2 - x1 + 1) * (y2 - y1 + 1)) for the corner tiles (x1, y1) and
\* (x2, y2) of the box at the zoom, or None when that does not fit usize;
\* and the count is the number of tiles of bbox.tiles_for_zoom(zoom).
C27_SizeBBoxZoom ==
    call.op = "size_bbox_zoom" =>
        LET t1 == lat_lon_to_tile(obj.bbox.top, obj.bbox.left, obj.zoom)
            t2 == lat_lon_to_tile(obj.bbox.bottom, obj.bbox.right, obj.zoom)
            count == (IntOf(t2[1]) - IntOf(t1[1]) + 1)
                         * (IntOf(t2[2]) - IntOf(t1[2]) + 1)
            tiles == BBox_tiles_for_zoom(obj.bbox, obj.zoom)
        IN /\ ret # Panic
           /\ ~size_bbox_zoom_overflows(obj.bbox, obj.zoom)
           /\ count >= 0 /\ ret = Some(W(count))
           /\ tiles.tag = "Tiles" /\ Len(tiles.val) = count

----------------------------------------------------------------------------
(* SpecAnyBBoxTiles: bbox.tiles() is pulled, for every kind of box that    *)
(* BBox::new accepts: ContainsBoxes has the boxes with top = bottom,       *)
(* left = right, top south of bottom and right west of left.               *)

InitAnyBBoxTiles ==
    /\ build \in Builds
    /\ \E bbox \in ContainsBoxes : obj = BBox_tiles(bbox)
    /\ call = [op |-> "BBox::tiles"]
    /\ ret = None
    /\ out = <<>>

NextAnyBBoxTiles == BBoxTilesNext

SpecAnyBBoxTiles == InitAnyBBoxTiles /\ [][NextAnyBBoxTiles]_vars

\* C28: every pull on bbox.tiles() returns a tile, for every box that
\* BBox::new accepts: the index read is inside the list of held tiles, which
\* is never empty after an expansion.
C28_PullReturnsTile ==
    /\ call.op = "next" => IsSome(ret)
    /\ obj.tile_index > 0 => obj.tiles # <<>>

----------------------------------------------------------------------------
(* The number of metatiles walked over a box (lib.rs:797-860, 1040-1056),  *)
(* under SpecMetaBBox.                                                     *)

\* The pulls that gave a metatile of a zoom.
PullsOfZoom(zoom) ==
    {k \in 1..Len(out) : IsSome(out[k]) /\ out[k].val.zoom = zoom}

\* C29: over a box, the metatiles yielded at a zoom are pairwise distinct,
\* and once the iterator has returned None their number is
\* size_bbox_zoom_metatiles(bbox, zoom, scale), that is
\* (x2/scale - x1/scale + 1) * (y2/scale - y1/scale + 1) for the corner
\* tiles (x1, y1) and (x2, y2) of the box at the zoom.
C29_MetatileCount ==
    (obj.bbox # None /\ call.op = "next") =>
        \A zoom \in call.minzoom..call.maxzoom :
            /\ \A j, k \in PullsOfZoom(zoom) : out[j] = out[k] => j = k
            /\ ret = None =>
                   LET g == BoxGrid(obj.bbox.val, obj.scale, zoom)
                       size == size_bbox_zoom_metatiles(obj.bbox.val, zoom,
                                                        obj.scale)
                   IN /\ size = Some(Mul(g.width, g.height))
                      /\ Cardinality(PullsOfZoom(zoom)) = IntOf(size.val)

----------------------------------------------------------------------------
(* The tiles of points and boxes (lib.rs:981-1006, 1099-1102, 1213-1223),  *)
(* under SpecSize.                                                         *)

\* C30: for every valid LatLon and every zoom, lat_lon_to_tile returns
\* (x, y) with x < 2^zoom and y < 2^zoom, so that LatLon::tile(zoom) and
\* BBox::tiles_for_zoom(zoom), which unwrap Tile::new(zoom, x, y), give
\* valid tiles and do not panic.
C30_TileOfLatLon ==
    /\ call.op = "LatLon::tile" =>
           LET xy == lat_lon_to_tile(call.point.lat, call.point.lon, obj.zoom)
           IN /\ Lt(xy[1], pow_u32(obj.zoom))
              /\ Lt(xy[2], pow_u32(obj.zoom))
              /\ ret = MkTile(obj.zoom, xy[1], xy[2])
    /\ call.op = "tiles_for_zoom" => ret.tag = "Tiles"

====
